---------------------------- MODULE Spec2Model ----------------------------
(***************************************************************************)
(* Car stereo head unit: the mode state machine of                         *)
(* main/car_stereo_state.c and the button / rotary-encoder input pipeline  *)
(* of main/buttons.c.                                                      *)
(*                                                                         *)
(* The state machine's module-level state is the record sm; every C        *)
(* function of car_stereo_state.c is an operator from a state record to    *)
(* the state record it leaves behind, so that calls compose as in the      *)
(* source.  The calls a public operation makes to its collaborators        *)
(* (audio stack, display handler, on_mode_change callback, NVS writes) are *)
(* logged in the fields audio, display, mode_cb and nvs_writes, which are  *)
(* emptied when the next public operation starts.                          *)
(*                                                                         *)
(* The state of buttons.c is the record btn.  The encoder ISR runs to      *)
(* completion at each pin edge; the three tasks of buttons.c advance in    *)
(* steps, and a task is inside the application callback from the step that *)
(* calls g_callback to the step in which the callback returns.             *)
(***************************************************************************)
EXTENDS Integers, Sequences, FiniteSets, TLC

(***************************************************************************)
(* Enumerations (car_stereo_state.h, buttons.h)                            *)
(***************************************************************************)
MODE_OFF == 0
MODE_RADIO == 1
MODE_BLUETOOTH == 2
MODE_PHONE_CALL == 3
MODE_PHONEBOOK == 4
Modes == {MODE_OFF, MODE_RADIO, MODE_BLUETOOTH, MODE_PHONE_CALL, MODE_PHONEBOOK}

RADIO_BAND_FM == 0
RADIO_BAND_AM == 1
Bands == {RADIO_BAND_FM, RADIO_BAND_AM}

BTN_ROTARY == 0
BTN_BAND_UM == 1
BTN_BAND_VF == 2
BTN_STATION_1 == 3
BTN_STATION_2 == 4
BTN_STATION_3 == 5
BTN_STATION_4 == 6
BTN_STATION_5 == 7
BTN_DOWN == 8
BTN_UP == 9
BTN_NONE == 255

BTN_EVENT_PRESS == 0
BTN_EVENT_RELEASE == 1
BTN_EVENT_LONG_PRESS == 2
BTN_EVENT_RELEASE_AFTER_LONG == 3
BTN_EVENT_REPEAT == 4
BTN_EVENT_ROTARY_CW == 5
BTN_EVENT_ROTARY_CCW == 6

\* button_event_t (the timestamp field is never written or read)
Ev(b, t) == [button |-> b, event |-> t]

\* bt_volume_target_t, the first argument of on_bt_volume_changed
VolumeTargets == {"BT_VOLUME_TARGET_A2DP", "BT_VOLUME_TARGET_HFP_SPEAKER",
                  "BT_VOLUME_TARGET_HFP_MIC"}

MAX_BT_DEVICES == 5
STATION_TUNE_DELAY_MS == 2000

\* A NULL pointer argument (addresses and task handles are 1, 2, ...), and a
\* NULL string argument
NULL == 0
NullStr == "(null)"
\* esp_err_t results of the audio stack's voice-recognition calls
ESP_OK == "ESP_OK"
ESP_FAIL == "ESP_FAIL"

(***************************************************************************)
(* float values.  A frequency is a C float; every frequency the program    *)
(* handles is held here exactly, as an integer count of FUnit-ths of a MHz *)
(* (2^-17 is the spacing of floats in [64,128), the FM range; the AM       *)
(* presets are whole numbers).                                             *)
(***************************************************************************)
FUnit == 131072

RECURSIVE Pow2(_)
Pow2(k) == IF k <= 0 THEN 1 ELSE 2 * Pow2(k - 1)

\* x / y rounded to the nearest integer, ties to even (IEEE default), x, y > 0
RoundDiv(x, y) ==
    LET q == x \div y
        r == x % y
    IN  IF 2 * r > y \/ (2 * r = y /\ q % 2 = 1) THEN q + 1 ELSE q

\* The float nearest to the decimal tenths/10 MHz of the FM range, as a count of
\* FUnit-ths: what "g_radio_state.frequency = 87.5" or "= 87.9" stores.
FloatOfTenths(tenths) == RoundDiv(tenths * FUnit, 10)

\* The binary exponent e with 2^e <= v < 2^(e+1), for an integer v >= 1
RECURSIVE Log2Floor(_)
Log2Floor(v) == IF v < 2 THEN 0 ELSE 1 + Log2Floor(v \div 2)

\* As FloatTimes100ToU32, the product being cut to 24 significant bits, not
\* rounded to the nearest
MutFloatTimes100ToU32(n) ==
    IF n = 0 THEN 0
    ELSE LET whole == (n \div FUnit) * 100 + ((n % FUnit) * 100) \div FUnit
             e     == Log2Floor(whole)
             k     == e - 6
             q     == n \div Pow2(k)
             r     == n % Pow2(k)
             ulps  == 100 * q + (100 * r) \div Pow2(k)
         IN  ulps \div Pow2(23 - e)

\* (uint32_t)(f * 100): the float product, rounded to 24 significant bits, then
\* truncated.  f is n/FUnit; the exact product is 100n/2^17 (at least 64 here).
FloatTimes100ToU32(n) ==
    IF n = 0 THEN 0
    ELSE LET whole == (n \div FUnit) * 100 + ((n % FUnit) * 100) \div FUnit
             e     == Log2Floor(whole)
             \* one ulp of the product is 2^(e-23), so the product is
             \* 100n / 2^(e-6) ulps
             k     == e - 6
             q     == n \div Pow2(k)
             r     == n % Pow2(k)
             ulps  == 100 * q + RoundDiv(100 * r, Pow2(k))
         IN  ulps \div Pow2(23 - e)

\* u32val / 100.0f: the float quotient (at least 64 here), as a count of
\* FUnit-ths.
U32Div100ToFloat(u) ==
    IF u = 0 THEN 0
    ELSE LET e == Log2Floor(u \div 100)
             \* one ulp of the quotient is 2^(e-23), that is 2^(e-6) FUnit-ths
             k == e - 6
         IN  RoundDiv(u * Pow2(17 - k), 100) * Pow2(k)

(***************************************************************************)
(* State                                                                   *)
(***************************************************************************)
VARIABLES
    sm,        \* the module-level state of car_stereo_state.c, the NVS store and
               \* the calls made to collaborators by the operation in progress
    hist,      \* history of the call in progress (not program state)
    btn,       \* buttons.c: its statics, the pins, the tick count, and the
               \* position and locals of each of its three tasks
    out        \* history of the events buttons.c hands to the callback

\* bt_device_settings_t, zero-initialised (static storage)
ZeroDevice ==
    [mac_addr |-> 0, a2dp_volume |-> 0, hfp_speaker_volume |-> 0,
     hfp_mic_volume |-> 0, valid |-> FALSE]

\* The static initialisers of car_stereo_state.c: the state of the process at
\* power-up, before stereo_state_init, with the NVS flash content `store`.
StaticState(store) ==
    [g_powered_on               |-> FALSE,
     g_current_mode             |-> MODE_OFF,
     g_mode_before_call         |-> MODE_RADIO,
     g_mode_before_phonebook    |-> MODE_RADIO,
     g_radio_state              |-> [frequency   |-> 0,
                                     volume      |-> 0,
                                     band        |-> RADIO_BAND_FM,
                                     preset_freq |-> [b \in Bands |-> [i \in 0..4 |-> 0]]],
     g_a2dp_state               |-> [volume |-> 0, playing |-> FALSE],
     g_hfp_state                |-> [speaker_volume |-> 0, mic_volume |-> 0,
                                     call_active |-> FALSE],
     g_current_band             |-> RADIO_BAND_FM,
     g_bt_devices               |-> [i \in 0..(MAX_BT_DEVICES - 1) |-> ZeroDevice],
     g_current_bt_device_mac    |-> 0,
     g_browsing_stations        |-> FALSE,
     g_browsing_station_idx     |-> 0,
     g_browsing_station_freq    |-> FloatOfTenths(875),
     g_station_tune_timer       |-> NULL,
     g_voice_recognition_active |-> FALSE,
     g_caller_id                |-> "",
     tune_tasks                 |-> {},
     tune_clearing              |-> {},
     tune_deleting              |-> {},
     restart_pc                 |-> "idle",
     restart_handle             |-> NULL,
     nvs                        |-> store,
     audio                      |-> << >>,
     display                    |-> << >>,
     mode_cb                    |-> << >>,
     nvs_writes                 |-> 0]

\* A public operation (or a task step) starts: the log of collaborator calls
\* is that of this operation alone.
Begin(s) ==
    [s EXCEPT !.audio = << >>, !.display = << >>, !.mode_cb = << >>,
              !.nvs_writes = 0]

\* A call into the audio stack (a2dpSinkHfpHf_*, bt_volume_control_init)
AudioCall(s, cmd) == [s EXCEPT !.audio = Append(@, cmd)]

\* g_config.on_mode_change(old, new); main.c registers mode_change_callback
on_mode_change(s, old, new) == [s EXCEPT !.mode_cb = Append(@, <<old, new>>)]

(***************************************************************************)
(* NVS persistence.  The store maps the keys that exist to their values;   *)
(* the namespace exists (nvs_open READONLY succeeds) once a key was set.   *)
(***************************************************************************)
PresetKey(b, i) ==
    IF b = RADIO_BAND_FM
    THEN CASE i = 0 -> "preset_fm_1" [] i = 1 -> "preset_fm_2" [] i = 2 -> "preset_fm_3"
           [] i = 3 -> "preset_fm_4" [] OTHER -> "preset_fm_5"
    ELSE CASE i = 0 -> "preset_am_1" [] i = 1 -> "preset_am_2" [] i = 2 -> "preset_am_3"
           [] i = 3 -> "preset_am_4" [] OTHER -> "preset_am_5"

BtDevKey(i) ==
    CASE i = 0 -> "bt_dev_0" [] i = 1 -> "bt_dev_1" [] i = 2 -> "bt_dev_2"
      [] i = 3 -> "bt_dev_3" [] OTHER -> "bt_dev_4"

\* nvs_set_*: the store with the keys of `kv` set
NvsSet(store, kv) == kv @@ store

\* nvs_get_*: ESP_OK exactly when the key exists
NvsHas(s, k) == k \in DOMAIN s.nvs

save_to_nvs(s) ==
    LET r == s.g_radio_state
        fm == r.preset_freq[RADIO_BAND_FM]
        am == r.preset_freq[RADIO_BAND_AM]
        written ==
            ("power_on"    :> (IF s.g_powered_on THEN 1 ELSE 0)) @@
            ("mode"        :> s.g_current_mode) @@
            ("radio_band"  :> s.g_current_band) @@
            ("radio_freq"  :> FloatTimes100ToU32(r.frequency)) @@
            ("radio_vol"   :> r.volume) @@
            ("a2dp_vol"    :> s.g_a2dp_state.volume) @@
            ("hfp_spk_vol" :> s.g_hfp_state.speaker_volume) @@
            ("hfp_mic_vol" :> s.g_hfp_state.mic_volume) @@
            ("preset_fm_1" :> FloatTimes100ToU32(fm[0])) @@
            ("preset_fm_2" :> FloatTimes100ToU32(fm[1])) @@
            ("preset_fm_3" :> FloatTimes100ToU32(fm[2])) @@
            ("preset_fm_4" :> FloatTimes100ToU32(fm[3])) @@
            ("preset_fm_5" :> FloatTimes100ToU32(fm[4])) @@
            ("preset_am_1" :> FloatTimes100ToU32(am[0])) @@
            ("preset_am_2" :> FloatTimes100ToU32(am[1])) @@
            ("preset_am_3" :> FloatTimes100ToU32(am[2])) @@
            ("preset_am_4" :> FloatTimes100ToU32(am[3])) @@
            ("preset_am_5" :> FloatTimes100ToU32(am[4]))
    IN  [s EXCEPT !.nvs = NvsSet(@, written), !.nvs_writes = @ + 1]

load_from_nvs(s) ==
    IF DOMAIN s.nvs = {}
    THEN \* nvs_open fails: "No saved state, using defaults"
         [s EXCEPT !.g_powered_on = FALSE, !.g_current_mode = MODE_OFF]
    ELSE LET band == IF NvsHas(s, "radio_band") THEN s.nvs["radio_band"]
                     ELSE s.g_current_band
         IN  [s EXCEPT
                !.g_powered_on = IF NvsHas(s, "power_on") THEN s.nvs["power_on"] # 0 ELSE @,
                !.g_current_mode = IF NvsHas(s, "mode") THEN s.nvs["mode"] ELSE @,
                !.g_current_band = band,
                !.g_radio_state.band = IF NvsHas(s, "radio_band") THEN band ELSE @,
                !.g_radio_state.frequency =
                    IF NvsHas(s, "radio_freq") THEN U32Div100ToFloat(s.nvs["radio_freq"]) ELSE @,
                !.g_radio_state.volume =
                    IF NvsHas(s, "radio_vol") THEN s.nvs["radio_vol"] ELSE @,
                !.g_radio_state.preset_freq =
                    [b \in Bands |-> [i \in 0..4 |->
                        IF NvsHas(s, PresetKey(b, i))
                        THEN U32Div100ToFloat(s.nvs[PresetKey(b, i)])
                        ELSE @[b][i]]],
                !.g_a2dp_state.volume =
                    IF NvsHas(s, "a2dp_vol") THEN s.nvs["a2dp_vol"] ELSE @,
                !.g_hfp_state.speaker_volume =
                    IF NvsHas(s, "hfp_spk_vol") THEN s.nvs["hfp_spk_vol"] ELSE @,
                !.g_hfp_state.mic_volume =
                    IF NvsHas(s, "hfp_mic_vol") THEN s.nvs["hfp_mic_vol"] ELSE @]

save_bt_device_settings(s) ==
    LET valid == {i \in 0..(MAX_BT_DEVICES - 1) : s.g_bt_devices[i].valid}
        blobs == [k \in {BtDevKey(i) : i \in valid} |->
                    LET i == CHOOSE j \in valid : BtDevKey(j) = k
                        d == s.g_bt_devices[i]
                    IN  <<d.mac_addr, d.a2dp_volume, d.hfp_speaker_volume,
                          d.hfp_mic_volume>>]
        count == [k \in {"bt_dev_cnt"} |-> Cardinality(valid)]
    IN  [s EXCEPT !.nvs = NvsSet(NvsSet(@, blobs), count),
                  !.nvs_writes = @ + 1]

load_bt_device_settings(s) ==
    IF DOMAIN s.nvs = {} THEN s
    ELSE LET count == IF NvsHas(s, "bt_dev_cnt") THEN s.nvs["bt_dev_cnt"] ELSE 0
         IN  [s EXCEPT !.g_bt_devices =
                [i \in 0..(MAX_BT_DEVICES - 1) |->
                    IF i < count /\ NvsHas(s, BtDevKey(i))
                    THEN LET blob == s.nvs[BtDevKey(i)]
                         IN  [mac_addr |-> blob[1], a2dp_volume |-> blob[2],
                              hfp_speaker_volume |-> blob[3],
                              hfp_mic_volume |-> blob[4], valid |-> TRUE]
                    ELSE @[i]]]

\* The index of the first valid slot holding mac, or -1
find_bt_device_by_mac(s, mac) ==
    LET hits == {i \in 0..(MAX_BT_DEVICES - 1) :
                    s.g_bt_devices[i].valid /\ s.g_bt_devices[i].mac_addr = mac}
    IN  IF hits = {} THEN -1 ELSE CHOOSE i \in hits : \A j \in hits : i <= j

\* As find_free_bt_device_slot, the scan running from the last slot down
MutFindFreeBtDeviceSlot(s) ==
    LET free == {i \in 0..(MAX_BT_DEVICES - 1) : ~s.g_bt_devices[i].valid}
    IN  IF free = {} THEN 0 ELSE CHOOSE i \in free : \A j \in free : i >= j

\* The index of the first slot that is not valid, or 0 when the table is full
find_free_bt_device_slot(s) ==
    LET free == {i \in 0..(MAX_BT_DEVICES - 1) : ~s.g_bt_devices[i].valid}
    IN  IF free = {} THEN 0 ELSE CHOOSE i \in free : \A j \in free : i <= j

(***************************************************************************)
(* Display notifications (g_config.display_handler is set by main.c)       *)
(***************************************************************************)
send_display_notification(s, type, text, subtext, duration_ms, priority) ==
    [s EXCEPT !.display =
        Append(@, [type |-> type, text |-> text, subtext |-> subtext,
                   duration_ms |-> duration_ms, priority |-> priority])]

\* snprintf(.., "%d", volume) and snprintf(.., "%.1f MHz", frequency)
VolText(v) == <<"%d", v>>
FreqText(f) == <<"%.1f MHz", f>>

(***************************************************************************)
(* Station tuning timer.  tune_tasks is the set of "tune_timer" tasks that *)
(* exist; a task handle is the identity of a task.                         *)
(***************************************************************************)
\* As station_tune_timer_callback, committing whether browsing is on or not
MutStationTune(s, task) ==
    LET tuned ==
            save_to_nvs(
              send_display_notification(
                [s EXCEPT !.g_radio_state.frequency = s.g_browsing_station_freq,
                          !.g_browsing_stations = FALSE],
                "DISPLAY_FREQUENCY", FreqText(s.g_browsing_station_freq),
                "Tuned", 2000, 100))
    IN  [tuned EXCEPT !.g_station_tune_timer = NULL,
                      !.tune_tasks = @ \ {task}]

\* The body of the timer task once its vTaskDelay(STATION_TUNE_DELAY_MS) is over
station_tune_timer_callback(s, task) ==
    LET tuned ==
            IF s.g_browsing_stations
            THEN save_to_nvs(
                   send_display_notification(
                     [s EXCEPT !.g_radio_state.frequency = s.g_browsing_station_freq,
                               !.g_browsing_stations = FALSE],
                     "DISPLAY_FREQUENCY", FreqText(s.g_browsing_station_freq),
                     "Tuned", 2000, 100))
            ELSE s
    IN  [tuned EXCEPT !.g_station_tune_timer = NULL,
                      !.tune_tasks = @ \ {task}]

start_station_tune_timer(s) ==
    LET alive == IF s.g_station_tune_timer # NULL
                 THEN s.tune_tasks \ {s.g_station_tune_timer}
                 ELSE s.tune_tasks
        new   == CHOOSE t \in 1..(Cardinality(alive) + 1) : t \notin alive
    IN  [s EXCEPT !.tune_tasks = alive \cup {new},
                  !.g_station_tune_timer = new]

(***************************************************************************)
(* Mode handlers                                                           *)
(***************************************************************************)
\* 87.5 + (idx * 0.2), stored into the float g_browsing_station_freq
BrowseFreq(idx) == FloatOfTenths(875 + 2 * idx)

\* (uint8_t)((freq - 87.5) / 0.2) for a frequency of at least 87.5 MHz: the
\* quotient is truncated
BrowseIdx(freq) == ((5 * (freq - FloatOfTenths(875))) \div FUnit) % 256

IsStation(b) == b >= BTN_STATION_1 /\ b <= BTN_STATION_5

\* As rotated_volume, the upper limit being one step further
MutRotatedVolume(v, type) ==
    IF type = BTN_EVENT_ROTARY_CW
    THEN (IF v <= 15 THEN v + 1 ELSE v)
    ELSE (IF v > 0 THEN v - 1 ELSE v)

\* "if (volume < 15) volume++" of RotateCW and "if (volume > 0) volume--" of
\* RotateCCW, in handle_radio_mode and in handle_bluetooth_mode
rotated_volume(v, type) ==
    IF type = BTN_EVENT_ROTARY_CW
    THEN (IF v < 15 THEN v + 1 ELSE v)
    ELSE (IF v > 0 THEN v - 1 ELSE v)

handle_radio_mode(s, event) ==
    CASE event.event \in {BTN_EVENT_ROTARY_CW, BTN_EVENT_ROTARY_CCW} ->
            IF s.g_browsing_stations
            THEN LET idx == IF event.event = BTN_EVENT_ROTARY_CW
                            THEN (s.g_browsing_station_idx + 1) % 20
                            ELSE IF s.g_browsing_station_idx = 0 THEN 19
                                 ELSE s.g_browsing_station_idx - 1
                     s1  == [s EXCEPT !.g_browsing_station_idx = idx,
                                      !.g_browsing_station_freq = BrowseFreq(idx)]
                 IN  start_station_tune_timer(
                       send_display_notification(s1, "DISPLAY_FREQUENCY",
                           FreqText(s1.g_browsing_station_freq), "Browsing", 0, 150))
            ELSE LET v  == s.g_radio_state.volume
                     nv == rotated_volume(v, event.event)
                     s1 == [s EXCEPT !.g_radio_state.volume = nv]
                 IN  save_to_nvs(
                       send_display_notification(s1, "DISPLAY_VOLUME", VolText(nv),
                                                 "Radio", 1000, 120))
      [] event.event = BTN_EVENT_PRESS ->
            IF event.button = BTN_ROTARY /\ ~s.g_browsing_stations
            THEN send_display_notification(s, "DISPLAY_FREQUENCY",
                     FreqText(s.g_radio_state.frequency),
                     IF s.g_current_band = RADIO_BAND_FM THEN "FM" ELSE "AM", 2000, 130)
            ELSE s
      [] event.event = BTN_EVENT_RELEASE ->
            IF IsStation(event.button)
            THEN LET idx  == event.button - BTN_STATION_1
                     freq == s.g_radio_state.preset_freq[s.g_current_band][idx]
                 IN  IF freq > 0
                     THEN save_to_nvs(
                            send_display_notification(
                              [s EXCEPT !.g_radio_state.frequency = freq],
                              "DISPLAY_FREQUENCY", <<"Station %d: %.1f MHz", idx + 1, freq>>,
                              NullStr, 2000, 130))
                     ELSE s
            ELSE IF event.button = BTN_UP
            THEN send_display_notification(s, "DISPLAY_MODE_CHANGE", <<"Seeking Up">>,
                                           NullStr, 1000, 110)
            ELSE IF event.button = BTN_DOWN
            THEN send_display_notification(s, "DISPLAY_MODE_CHANGE", <<"Seeking Down">>,
                                           NullStr, 1000, 110)
            ELSE IF event.button = BTN_ROTARY
            THEN IF ~s.g_browsing_stations
                 THEN LET f == s.g_radio_state.frequency
                      IN  send_display_notification(
                            [s EXCEPT !.g_browsing_stations = TRUE,
                                      !.g_browsing_station_freq = f,
                                      !.g_browsing_station_idx = BrowseIdx(f)],
                            "DISPLAY_FREQUENCY", FreqText(f), "Browse Mode", 0, 150)
                 ELSE [s EXCEPT !.g_browsing_stations = FALSE]
            ELSE s
      [] event.event = BTN_EVENT_LONG_PRESS ->
            IF IsStation(event.button)
            THEN LET idx == event.button - BTN_STATION_1
                 IN  save_to_nvs(
                       send_display_notification(
                         [s EXCEPT !.g_radio_state.preset_freq[s.g_current_band][idx] =
                                       s.g_radio_state.frequency],
                         "DISPLAY_FREQUENCY", <<"Station %d Saved", idx + 1>>,
                         NullStr, 2000, 140))
            ELSE s
      [] OTHER -> s     \* BTN_EVENT_REPEAT, BTN_EVENT_RELEASE_AFTER_LONG

handle_bluetooth_mode(s, event) ==
    CASE event.event \in {BTN_EVENT_ROTARY_CW, BTN_EVENT_ROTARY_CCW} ->
            LET v  == s.g_a2dp_state.volume
                nv == rotated_volume(v, event.event)
                s1 == [s EXCEPT !.g_a2dp_state.volume = nv]
            IN  save_to_nvs(
                  AudioCall(
                    send_display_notification(s1, "DISPLAY_VOLUME", VolText(nv),
                                              "Bluetooth", 1000, 120),
                    <<"set_a2dp_volume", nv>>))
      [] event.event = BTN_EVENT_RELEASE ->
            IF event.button = BTN_ROTARY
            THEN IF s.g_a2dp_state.playing
                 THEN send_display_notification(
                        [AudioCall(s, <<"avrc_pause">>) EXCEPT !.g_a2dp_state.playing = FALSE],
                        "DISPLAY_MODE_CHANGE", <<"Paused">>, NullStr, 1000, 110)
                 ELSE send_display_notification(
                        [AudioCall(s, <<"avrc_play">>) EXCEPT !.g_a2dp_state.playing = TRUE],
                        "DISPLAY_MODE_CHANGE", <<"Playing">>, NullStr, 1000, 110)
            ELSE IF event.button = BTN_UP
            THEN send_display_notification(AudioCall(s, <<"avrc_next">>),
                     "DISPLAY_MODE_CHANGE", <<"Next Track">>, NullStr, 1000, 110)
            ELSE IF event.button = BTN_DOWN
            THEN send_display_notification(AudioCall(s, <<"avrc_prev">>),
                     "DISPLAY_MODE_CHANGE", <<"Previous Track">>, NullStr, 1000, 110)
            ELSE s
      [] event.event = BTN_EVENT_REPEAT ->
            IF event.button = BTN_UP \/ event.button = BTN_DOWN
            THEN LET v  == s.g_a2dp_state.volume
                     nv == IF event.button = BTN_UP /\ v < 15 THEN v + 1
                           ELSE IF event.button = BTN_DOWN /\ v > 0 THEN v - 1
                           ELSE v
                     s1 == [s EXCEPT !.g_a2dp_state.volume = nv]
                 IN  save_to_nvs(
                       AudioCall(
                         send_display_notification(s1, "DISPLAY_VOLUME", VolText(nv),
                                                   "Bluetooth", 1000, 120),
                         <<"set_a2dp_volume", nv>>))
            ELSE s
      [] OTHER -> s     \* PRESS, LONG_PRESS, RELEASE_AFTER_LONG

handle_phone_call_mode(s, event) ==
    CASE event.event = BTN_EVENT_ROTARY_CW ->
            IF s.g_a2dp_state.volume < 15
            THEN LET s1 == [s EXCEPT !.g_a2dp_state.volume = @ + 1]
                 IN  AudioCall(
                       send_display_notification(s1, "DISPLAY_VOLUME",
                           VolText(s1.g_a2dp_state.volume), "Call Volume", 1000, 200),
                       <<"set_hfp_speaker_volume", s1.g_hfp_state.speaker_volume>>)
            ELSE s
      [] event.event = BTN_EVENT_ROTARY_CCW ->
            IF s.g_a2dp_state.volume > 0
            THEN LET s1 == [s EXCEPT !.g_a2dp_state.volume = @ - 1]
                 IN  AudioCall(
                       send_display_notification(s1, "DISPLAY_VOLUME",
                           VolText(s1.g_a2dp_state.volume), "Call Volume", 1000, 200),
                       <<"set_hfp_speaker_volume", s1.g_hfp_state.speaker_volume>>)
            ELSE s
      [] event.event = BTN_EVENT_PRESS ->
            IF event.button = BTN_ROTARY
            THEN LET s1 == send_display_notification(AudioCall(s, <<"hangup_call">>),
                               "DISPLAY_CALL_ACTIVE", <<"Call Ended">>, NullStr, 2000, 250)
                     s2 == [s1 EXCEPT !.g_current_mode = s.g_mode_before_call]
                 IN  save_to_nvs(on_mode_change(s2, MODE_PHONE_CALL, s2.g_current_mode))
            ELSE s
      [] OTHER -> s     \* RELEASE, LONG_PRESS, RELEASE_AFTER_LONG, REPEAT

\* "simplified placeholder": the body is empty
handle_phonebook_mode(s, event) == s

on_bt_volume_changed(s, target, new_volume) ==
    LET s1 == CASE target = "BT_VOLUME_TARGET_A2DP" ->
                     [s EXCEPT !.g_a2dp_state.volume = new_volume]
                [] target = "BT_VOLUME_TARGET_HFP_SPEAKER" ->
                     [s EXCEPT !.g_hfp_state.speaker_volume = new_volume]
                [] target = "BT_VOLUME_TARGET_HFP_MIC" ->
                     [s EXCEPT !.g_hfp_state.mic_volume = new_volume]
                [] OTHER -> s
        context == CASE target = "BT_VOLUME_TARGET_A2DP" -> "Bluetooth"
                     [] target = "BT_VOLUME_TARGET_HFP_SPEAKER" -> "Call Volume"
                     [] target = "BT_VOLUME_TARGET_HFP_MIC" -> "Mic Volume"
                     [] OTHER -> "Volume"
    IN  send_display_notification(s1, "DISPLAY_VOLUME", VolText(new_volume),
                                  context, 1000, 120)

(***************************************************************************)
(* Public API of car_stereo_state.c                                        *)
(***************************************************************************)
stereo_state_init(s) ==
    LET d  == [s EXCEPT
                  !.g_radio_state.frequency = FloatOfTenths(875),
                  !.g_radio_state.volume = 10,
                  !.g_radio_state.preset_freq =
                      [b \in Bands |-> [i \in 0..4 |->
                          IF b = RADIO_BAND_FM
                          THEN CASE i = 0 -> FloatOfTenths(879)
                                 [] i = 1 -> FloatOfTenths(953)
                                 [] i = 2 -> FloatOfTenths(1011)
                                 [] i = 3 -> FloatOfTenths(1057)
                                 [] OTHER -> FloatOfTenths(1079)
                          ELSE CASE i = 0 -> 540 * FUnit
                                 [] i = 1 -> 720 * FUnit
                                 [] i = 2 -> 950 * FUnit
                                 [] i = 3 -> 1200 * FUnit
                                 [] OTHER -> 1450 * FUnit]],
                  !.g_a2dp_state.volume = 10,
                  !.g_a2dp_state.playing = FALSE,
                  !.g_hfp_state.speaker_volume = 12,
                  !.g_hfp_state.mic_volume = 10,
                  !.g_hfp_state.call_active = FALSE]
        l  == load_bt_device_settings(load_from_nvs(d))
        v  == AudioCall(l, <<"bt_volume_control_init", l.g_a2dp_state.volume,
                             l.g_hfp_state.speaker_volume, l.g_hfp_state.mic_volume>>)
    IN  IF v.g_powered_on /\ v.g_current_mode = MODE_RADIO
        THEN send_display_notification(v, "DISPLAY_MODE_CHANGE", <<"Radio">>,
                                       NullStr, 2000, 100)
        ELSE IF ~v.g_powered_on
        THEN [v EXCEPT !.g_current_mode = MODE_OFF]
        ELSE v

\* As power_control, but keyed on the power flag instead of the mode
MutPowerControl(s) ==
    IF ~s.g_powered_on
    THEN LET s1 == [s EXCEPT !.g_powered_on = TRUE,
                             !.g_current_mode = MODE_RADIO]
             s2 == save_to_nvs(
                     send_display_notification(s1, "DISPLAY_MODE_CHANGE",
                         <<"Power ON">>, NullStr, 1500, 150))
         IN  on_mode_change(s2, MODE_OFF, s2.g_current_mode)
    ELSE LET old_mode == s.g_current_mode
             s1 == [s EXCEPT !.g_powered_on = FALSE,
                             !.g_current_mode = MODE_OFF]
             s2 == save_to_nvs(
                     send_display_notification(s1, "DISPLAY_MODE_CHANGE",
                         <<"Power OFF">>, NullStr, 1000, 150))
         IN  on_mode_change(s2, old_mode, MODE_OFF)

\* Power control of stereo_state_handle_button: the body of its first branch
power_control(s) ==
    IF s.g_current_mode = MODE_OFF
    THEN LET s1 == [s EXCEPT !.g_powered_on = TRUE,
                             !.g_current_mode = MODE_RADIO]
             s2 == save_to_nvs(
                     send_display_notification(s1, "DISPLAY_MODE_CHANGE",
                         <<"Power ON">>, NullStr, 1500, 150))
         IN  on_mode_change(s2, MODE_OFF, s2.g_current_mode)
    ELSE LET old_mode == s.g_current_mode
             s1 == [s EXCEPT !.g_powered_on = FALSE,
                             !.g_current_mode = MODE_OFF]
             s2 == save_to_nvs(
                     send_display_notification(s1, "DISPLAY_MODE_CHANGE",
                         <<"Power OFF">>, NullStr, 1000, 150))
         IN  on_mode_change(s2, old_mode, MODE_OFF)

\* voice_ret is what a2dpSinkHfpHf_start/stop_voice_recognition returns when the
\* handler calls it
stereo_state_handle_button(s, event, voice_ret) ==
    IF event.button = BTN_ROTARY /\ event.event = BTN_EVENT_PRESS
    THEN \* power control, short press on the rotary button only
         power_control(s)
    ELSE IF event.button = BTN_BAND_UM /\ event.event = BTN_EVENT_PRESS
    THEN \* button 1 starts voice recognition
         IF ~s.g_voice_recognition_active
            /\ (s.g_current_mode = MODE_BLUETOOTH \/ s.g_current_mode = MODE_RADIO)
         THEN LET s1 == AudioCall(s, <<"start_voice_recognition">>)
              IN  IF voice_ret = ESP_OK
                  THEN send_display_notification(
                         [s1 EXCEPT !.g_voice_recognition_active = TRUE],
                         "DISPLAY_MODE_CHANGE", <<"Voice Assistant">>,
                         "Listening...", 0, 200)
                  ELSE send_display_notification(s1, "DISPLAY_MODE_CHANGE",
                         <<"Voice Assistant">>, "Failed to Start", 2000, 200)
         ELSE s   \* already active, or not available in this mode: logged only
    ELSE IF event.button = BTN_BAND_VF /\ event.event = BTN_EVENT_PRESS
    THEN \* button 2 stops voice recognition
         IF s.g_voice_recognition_active
         THEN LET s1 == AudioCall(s, <<"stop_voice_recognition">>)
              IN  IF voice_ret = ESP_OK
                  THEN send_display_notification(
                         [s1 EXCEPT !.g_voice_recognition_active = FALSE],
                         "DISPLAY_MODE_CHANGE", <<"Voice Assistant">>,
                         "Stopped", 1500, 180)
                  ELSE s1
         ELSE s
    ELSE IF s.g_current_mode = MODE_OFF
    THEN s   \* system is off: all other events are ignored
    ELSE CASE s.g_current_mode = MODE_BLUETOOTH  -> handle_bluetooth_mode(s, event)
           [] s.g_current_mode = MODE_RADIO      -> handle_radio_mode(s, event)
           [] s.g_current_mode = MODE_PHONE_CALL -> handle_phone_call_mode(s, event)
           [] s.g_current_mode = MODE_PHONEBOOK  -> handle_phonebook_mode(s, event)
           [] OTHER -> s

stereo_state_set_power(s, on) ==
    IF on = s.g_powered_on THEN s
    ELSE LET s1 == IF on
                   THEN send_display_notification(
                          [s EXCEPT !.g_powered_on = on, !.g_current_mode = MODE_RADIO],
                          "DISPLAY_MODE_CHANGE", <<"Power ON">>, "Welcome", 2000, 200)
                   ELSE send_display_notification(
                          [s EXCEPT !.g_powered_on = on, !.g_current_mode = MODE_OFF],
                          "DISPLAY_MODE_CHANGE", <<"Power OFF">>, "Goodbye", 2000, 200)
             s2 == save_to_nvs(s1)
         IN  on_mode_change(s2, MODE_OFF, s2.g_current_mode)

\* As auto_power_on_if_off, switching the mode during a call as well
MutAutoPowerOnIfOff(s, target_mode, reason) ==
    IF s.g_powered_on
    THEN IF s.g_current_mode # target_mode
         THEN LET old_mode == s.g_current_mode
                  s1 == send_display_notification(
                          [s EXCEPT !.g_current_mode = target_mode],
                          "DISPLAY_MODE_CHANGE",
                          IF target_mode = MODE_BLUETOOTH THEN <<"Bluetooth">>
                          ELSE <<"Phone Call">>,
                          reason, 1500, 180)
              IN  on_mode_change(save_to_nvs(s1), old_mode, target_mode)
         ELSE s
    ELSE LET s1 == send_display_notification(
                     [s EXCEPT !.g_powered_on = TRUE, !.g_current_mode = target_mode],
                     "DISPLAY_MODE_CHANGE", <<"Auto Power ON">>, reason, 2000, 200)
         IN  on_mode_change(save_to_nvs(s1), MODE_OFF, target_mode)

auto_power_on_if_off(s, target_mode, reason) ==
    IF s.g_powered_on
    THEN \* already on: just switch mode if needed
         IF s.g_current_mode # target_mode /\ s.g_current_mode # MODE_PHONE_CALL
         THEN LET old_mode == s.g_current_mode
                  s1 == send_display_notification(
                          [s EXCEPT !.g_current_mode = target_mode],
                          "DISPLAY_MODE_CHANGE",
                          IF target_mode = MODE_BLUETOOTH THEN <<"Bluetooth">>
                          ELSE <<"Phone Call">>,
                          reason, 1500, 180)
              IN  on_mode_change(save_to_nvs(s1), old_mode, target_mode)
         ELSE s
    ELSE LET s1 == send_display_notification(
                     [s EXCEPT !.g_powered_on = TRUE, !.g_current_mode = target_mode],
                     "DISPLAY_MODE_CHANGE", <<"Auto Power ON">>, reason, 2000, 200)
         IN  on_mode_change(save_to_nvs(s1), MODE_OFF, target_mode)

\* As preempted_mode, without the special case of the phonebook
MutPreemptedMode(s) == s.g_current_mode

\* The mode stereo_state_hfp_call_status records for restoration when a call
\* starts with the system powered on
preempted_mode(s) ==
    IF s.g_current_mode = MODE_PHONEBOOK
    THEN s.g_mode_before_phonebook
    ELSE s.g_current_mode

stereo_state_hfp_call_status(s, call_active, caller_id) ==
    IF call_active /\ s.g_current_mode # MODE_PHONE_CALL
    THEN LET s0 == [s EXCEPT !.g_caller_id =
                        IF caller_id # NullStr THEN caller_id ELSE "Unknown Caller"]
             s1 == IF ~s0.g_powered_on
                   THEN auto_power_on_if_off(s0, MODE_PHONE_CALL, "Incoming Call")
                   ELSE LET before == preempted_mode(s0)
                        IN  on_mode_change(
                              [s0 EXCEPT !.g_mode_before_call = before,
                                         !.g_current_mode = MODE_PHONE_CALL],
                              before, MODE_PHONE_CALL)
             s2 == send_display_notification(s1, "DISPLAY_CALL_INCOMING",
                       <<s1.g_caller_id>>, "Press to answer", 0, 255)
             s3 == AudioCall(s2, <<"answer_call">>)
         IN  send_display_notification(s3, "DISPLAY_CALL_ACTIVE",
                 <<s3.g_caller_id>>, "Connected", 0, 250)
    ELSE IF ~call_active /\ s.g_current_mode = MODE_PHONE_CALL
    THEN LET s1 == send_display_notification(s, "DISPLAY_CALL_ACTIVE",
                       <<"Call Ended">>, NullStr, 2000, 200)
             s2 == [s1 EXCEPT !.g_current_mode = s.g_mode_before_call]
         IN  save_to_nvs(on_mode_change(s2, MODE_PHONE_CALL, s2.g_current_mode))
    ELSE s

stereo_state_bt_device_connected(s, device_addr) ==
    IF device_addr = NULL THEN s
    ELSE LET s0  == [s EXCEPT !.g_current_bt_device_mac = device_addr]
             idx == find_bt_device_by_mac(s0, device_addr)
         IN  IF idx >= 0
             THEN LET dev == s0.g_bt_devices[idx]
                      s1  == [s0 EXCEPT
                                !.g_a2dp_state.volume = dev.a2dp_volume,
                                !.g_hfp_state.speaker_volume = dev.hfp_speaker_volume,
                                !.g_hfp_state.mic_volume = dev.hfp_mic_volume]
                      s2  == AudioCall(AudioCall(AudioCall(s1,
                                <<"set_a2dp_volume", dev.a2dp_volume>>),
                                <<"set_hfp_speaker_volume", dev.hfp_speaker_volume>>),
                                <<"set_hfp_mic_volume", dev.hfp_mic_volume>>)
                  IN  send_display_notification(s2, "DISPLAY_MODE_CHANGE",
                          <<"Device Connected">>, "Volumes Restored", 2000, 140)
             ELSE LET s2 == AudioCall(AudioCall(AudioCall(s0,
                                <<"set_a2dp_volume", s0.g_a2dp_state.volume>>),
                                <<"set_hfp_speaker_volume", s0.g_hfp_state.speaker_volume>>),
                                <<"set_hfp_mic_volume", s0.g_hfp_state.mic_volume>>)
                  IN  send_display_notification(s2, "DISPLAY_MODE_CHANGE",
                          <<"New Device">>, "Default Volumes", 2000, 140)

stereo_state_bt_device_disconnected(s, device_addr) ==
    IF device_addr = NULL THEN s
    ELSE LET found == find_bt_device_by_mac(s, device_addr)
             idx   == IF found < 0 THEN find_free_bt_device_slot(s) ELSE found
             s1    == [s EXCEPT !.g_bt_devices[idx] =
                          [mac_addr           |-> device_addr,
                           a2dp_volume        |-> s.g_a2dp_state.volume,
                           hfp_speaker_volume |-> s.g_hfp_state.speaker_volume,
                           hfp_mic_volume     |-> s.g_hfp_state.mic_volume,
                           valid              |-> TRUE]]
         IN  [save_bt_device_settings(s1) EXCEPT !.g_current_bt_device_mac = 0]

stereo_state_save(s) == save_to_nvs(s)

ModeName(mode) ==
    CASE mode = MODE_OFF -> "OFF" [] mode = MODE_RADIO -> "RADIO"
      [] mode = MODE_BLUETOOTH -> "BLUETOOTH" [] mode = MODE_PHONE_CALL -> "PHONE_CALL"
      [] OTHER -> "PHONEBOOK"

stereo_state_set_mode(s, mode) ==
    IF mode = s.g_current_mode THEN s
    ELSE LET old_mode == s.g_current_mode
             s1 == send_display_notification([s EXCEPT !.g_current_mode = mode],
                       "DISPLAY_MODE_CHANGE", <<ModeName(mode)>>, NullStr, 2000, 150)
         IN  on_mode_change(save_to_nvs(s1), old_mode, mode)

stereo_state_a2dp_streaming(s, streaming) ==
    LET s1 == [s EXCEPT !.g_a2dp_state.playing = streaming]
    IN  IF streaming
        THEN auto_power_on_if_off(s1, MODE_BLUETOOTH, "Music Playing")
        ELSE s1

(***************************************************************************)
(* main.c: the callbacks the audio stack is given                          *)
(***************************************************************************)
bt_connection_callback(s, connected, remote_bda) ==
    IF connected
    THEN stereo_state_bt_device_connected(s, remote_bda)
    ELSE stereo_state_bt_device_disconnected(s, NULL)

a2dp_audio_state_callback(s, streaming) ==
    IF streaming
    THEN LET current_mode == s.g_current_mode
             s1 == IF current_mode # MODE_PHONE_CALL /\ current_mode # MODE_BLUETOOTH
                   THEN stereo_state_set_mode(s, MODE_BLUETOOTH)
                   ELSE s
         IN  stereo_state_a2dp_streaming(s1, TRUE)
    ELSE stereo_state_a2dp_streaming(s, FALSE)


(***************************************************************************)
(* buttons.c                                                               *)
(***************************************************************************)
THRESHOLD_TOLERANCE == 40
NUM_BUTTONS == 9
DEBOUNCE_MS == 50
ROTARY_DEBOUNCE_MS == 5
LONG_PRESS_THRESHOLD_MS == 1000
BUTTON_REPEAT_INTERVAL_MS == 200
ENC_STATE_11 == 3

\* xQueueCreate(20, sizeof(button_event_t))
QueueLength == 20

button_thresholds == <<201, 346, 757, 1425, 2204, 2830, 3450, 3920, 4095>>

\* rotary_transition_table[state][new_state], both 0..3
rotary_transition_table ==
    << <<0, -1, 1, 0>>, <<1, 0, 0, -1>>, <<-1, 0, 0, 1>>, <<0, 1, -1, 0>> >>

\* now - then on uint32_t tick times; the tick count never decreases and stays
\* below MaxTime, far from the wrap at 2^32
U32Sub(now, then) == now - then

\* No event: the dispatcher holds none, a task is not in the callback
NoEvent == Ev(BTN_NONE, BTN_EVENT_RELEASE)

\* The statics of buttons.c after buttons_init, the pins pulled up and the
\* encoder at rest, the tick count at 0 and the three tasks at their start
ButtonsStatics ==
    [now                  |-> 0,
     sw                   |-> 1,
     clk                  |-> 1,
     dt                   |-> 1,
     g_last_rotary_time   |-> 0,
     g_rotary_press_start |-> 0,
     g_rotary_pressed     |-> FALSE,
     g_long_press_sent    |-> FALSE,
     g_encoder_state      |-> ENC_STATE_11,
     g_encoder_position   |-> 0,
     g_button_queue       |-> << >>,
     \* rotary_event_task: the event received, while it is in the callback
     rotary_event         |-> NoEvent,
     \* button_long_press_monitor_task: "delay", "duration", "callback", "sent"
     monitor_pc           |-> "delay",
     \* adc_button_monitor_task: its locals, and the event it is in the callback
     \* with
     last_button          |-> BTN_NONE,
     press_time           |-> 0,
     long_press_sent      |-> FALSE,
     last_repeat_time     |-> 0,
     current_button       |-> BTN_NONE,
     adc_now              |-> 0,
     adc_event            |-> NoEvent]

\* As send_button_event, a full queue taking one event more
MutSendButtonEvent(b, button, type) ==
    IF Len(b.g_button_queue) <= QueueLength
    THEN [b EXCEPT !.g_button_queue = Append(@, Ev(button, type))]
    ELSE b

\* xQueueSendFromISR: the event is dropped when the queue is full
send_button_event(b, button, type) ==
    IF Len(b.g_button_queue) < QueueLength
    THEN [b EXCEPT !.g_button_queue = Append(@, Ev(button, type))]
    ELSE b

\* As isr_button_pressed, re-arming the long press at every invocation
MutIsrButtonPressed(b, now) ==
    IF ~b.g_rotary_pressed
    THEN [b EXCEPT !.g_rotary_press_start = now,
                   !.g_rotary_pressed = TRUE,
                   !.g_long_press_sent = FALSE,
                   !.g_encoder_position = 0]
    ELSE [b EXCEPT !.g_long_press_sent = FALSE]

\* rotary_encoder_isr, the branch for the button read pressed at rest
isr_button_pressed(b, now) ==
    IF ~b.g_rotary_pressed
    THEN [b EXCEPT !.g_rotary_press_start = now,
                   !.g_rotary_pressed = TRUE,
                   !.g_long_press_sent = FALSE,
                   !.g_encoder_position = 0]
    ELSE b

\* As isr_button_released, a hold of exactly the debounce minimum being a
\* press
MutIsrButtonReleased(b, now) ==
    LET b1 == [b EXCEPT !.g_rotary_pressed = FALSE]
        press_duration == U32Sub(now, b.g_rotary_press_start)
    IN  IF press_duration >= LONG_PRESS_THRESHOLD_MS
        THEN send_button_event(b1, BTN_ROTARY, BTN_EVENT_RELEASE_AFTER_LONG)
        ELSE IF press_duration >= DEBOUNCE_MS
        THEN send_button_event(b1, BTN_ROTARY, BTN_EVENT_PRESS)
        ELSE b1

\* rotary_encoder_isr, the branch for the button read released at rest with
\* the pressed flag set
isr_button_released(b, now) ==
    LET b1 == [b EXCEPT !.g_rotary_pressed = FALSE]
        press_duration == U32Sub(now, b.g_rotary_press_start)
    IN  IF press_duration >= LONG_PRESS_THRESHOLD_MS
        THEN send_button_event(b1, BTN_ROTARY, BTN_EVENT_RELEASE_AFTER_LONG)
        ELSE IF press_duration > DEBOUNCE_MS
        THEN send_button_event(b1, BTN_ROTARY, BTN_EVENT_PRESS)
        ELSE b1

\* As isr_turn_decoding, an event being sent at three steps
MutIsrTurnDecoding(b, now, clk_state, dt_state) ==
    LET new_state == 2 * clk_state + dt_state
        direction ==
            rotary_transition_table[b.g_encoder_state + 1][new_state + 1]
        b1 == [b EXCEPT !.g_encoder_state = new_state]
    IN  IF direction # 0
        THEN LET b2 == [b1 EXCEPT !.g_encoder_position = @ + direction,
                                  !.g_last_rotary_time = now]
             IN  IF b2.g_encoder_position >= 3
                 THEN send_button_event(
                        [b2 EXCEPT !.g_encoder_position = 0],
                        BTN_ROTARY, BTN_EVENT_ROTARY_CW)
                 ELSE IF b2.g_encoder_position <= -3
                 THEN send_button_event(
                        [b2 EXCEPT !.g_encoder_position = 0],
                        BTN_ROTARY, BTN_EVENT_ROTARY_CCW)
                 ELSE b2
        ELSE b1

\* rotary_encoder_isr, the branch that decodes the two phase pins
isr_turn_decoding(b, now, clk_state, dt_state) ==
    LET new_state == 2 * clk_state + dt_state
        direction ==
            rotary_transition_table[b.g_encoder_state + 1][new_state + 1]
        b1 == [b EXCEPT !.g_encoder_state = new_state]
    IN  IF direction # 0
        THEN LET b2 == [b1 EXCEPT !.g_encoder_position = @ + direction,
                                  !.g_last_rotary_time = now]
             IN  IF b2.g_encoder_position >= 2
                 THEN send_button_event(
                        [b2 EXCEPT !.g_encoder_position = 0],
                        BTN_ROTARY, BTN_EVENT_ROTARY_CW)
                 ELSE IF b2.g_encoder_position <= -2
                 THEN send_button_event(
                        [b2 EXCEPT !.g_encoder_position = 0],
                        BTN_ROTARY, BTN_EVENT_ROTARY_CCW)
                 ELSE b2
        ELSE b1

\* The ISR of the three encoder pins; it reads the tick count and the pins
rotary_encoder_isr(b) ==
    LET now       == b.now
        sw_state  == b.sw
        clk_state == b.clk
        dt_state  == b.dt
    IN  IF U32Sub(now, b.g_last_rotary_time) < ROTARY_DEBOUNCE_MS
        THEN b
        ELSE IF sw_state = 0 /\ clk_state = 1 /\ dt_state = 1
        THEN isr_button_pressed(b, now)
        ELSE IF sw_state = 1 /\ b.g_rotary_pressed /\ clk_state = 1 /\ dt_state = 1
        THEN isr_button_released(b, now)
        ELSE isr_turn_decoding(b, now, clk_state, dt_state)

\* The loop of adc_read_button over the thresholds, which follows its
\* unconditional return: the first button whose band holds the reading
adc_match_button(adc_reading) ==
    LET hits == {i \in 1..NUM_BUTTONS :
                    /\ adc_reading >= button_thresholds[i] - THRESHOLD_TOLERANCE
                    /\ adc_reading <= button_thresholds[i] + THRESHOLD_TOLERANCE}
    IN  IF hits = {} THEN BTN_NONE
        ELSE CHOOSE i \in hits : \A j \in hits : i <= j

\* adc_read_button on the average of its samples.  The function returns
\* BTN_NONE before it reaches the loop over the thresholds.
adc_read_button(adc_reading) ==
    IF adc_reading < 100
    THEN BTN_NONE
    ELSE BTN_NONE

\* As adc_loop_end, without the assignment to last_button
MutAdcLoopEnd(b) == [b EXCEPT !.adc_event = NoEvent]

\* adc_button_monitor_task, the end of an iteration of its loop
adc_loop_end(b) ==
    [b EXCEPT !.last_button = b.current_button, !.adc_event = NoEvent]

\* adc_button_monitor_task, one iteration of its loop up to the first call of
\* g_callback: the reading is classified and the locals are set; adc_event is
\* the event the task calls g_callback with, NoEvent when it calls with none
\* and goes on to the end of the iteration.
adc_loop_body(b, current_button) ==
    LET now == b.now
        b0  == [b EXCEPT !.current_button = current_button, !.adc_now = now]
    IN  IF current_button # BTN_NONE /\ current_button # b.last_button
        THEN [b0 EXCEPT !.press_time = now,
                        !.last_repeat_time = now,
                        !.long_press_sent = FALSE,
                        !.adc_event = Ev(current_button, BTN_EVENT_PRESS)]
        ELSE IF current_button # BTN_NONE /\ current_button = b.last_button
        THEN IF ~b.long_press_sent
                /\ U32Sub(now, b.press_time) >= 1000
             THEN [b0 EXCEPT !.adc_event = Ev(current_button, BTN_EVENT_LONG_PRESS)]
             ELSE IF b.long_press_sent
                     /\ U32Sub(now, b.last_repeat_time) >= BUTTON_REPEAT_INTERVAL_MS
             THEN [b0 EXCEPT !.adc_event = Ev(current_button, BTN_EVENT_REPEAT)]
             ELSE adc_loop_end(b0)
        ELSE IF current_button = BTN_NONE /\ b.last_button # BTN_NONE
        THEN [b0 EXCEPT !.adc_event = Ev(b.last_button, BTN_EVENT_RELEASE)]
        ELSE adc_loop_end(b0)

\* adc_button_monitor_task from the return of g_callback on: after the long
\* press the repeat is looked at in the same iteration
adc_after_callback(b) ==
    IF b.adc_event.event = BTN_EVENT_LONG_PRESS
    THEN LET b1 == [b EXCEPT !.long_press_sent = TRUE]
         IN  IF U32Sub(b.adc_now, b.last_repeat_time) >= BUTTON_REPEAT_INTERVAL_MS
             THEN [b1 EXCEPT !.adc_event = Ev(b.current_button, BTN_EVENT_REPEAT)]
             ELSE adc_loop_end(b1)
    ELSE IF b.adc_event.event = BTN_EVENT_REPEAT
    THEN adc_loop_end([b EXCEPT !.last_repeat_time = b.adc_now])
    ELSE adc_loop_end(b)

\* main.c registers button_event_callback as g_callback
button_event_callback(s, event, voice_ret) ==
    stereo_state_handle_button(s, event, voice_ret)

(***************************************************************************)
(* Bounds and input sets of the model                                      *)
(***************************************************************************)
\* Rotate events handled in one run
MaxRotations == 2

\* Bluetooth addresses are 1..NumAddrs
NumAddrs == 1
Addrs == 1..NumAddrs

\* The events the input pipeline of buttons.c delivers for the rotary encoder
EncoderEvents ==
    {Ev(BTN_ROTARY, t) : t \in {BTN_EVENT_PRESS, BTN_EVENT_LONG_PRESS,
                                BTN_EVENT_RELEASE_AFTER_LONG,
                                BTN_EVENT_ROTARY_CW, BTN_EVENT_ROTARY_CCW}}

\* Events of the front panel: the encoder's, and those the polling task makes
\* for the ladder buttons
PanelEvents ==
    EncoderEvents \cup
    {Ev(BTN_BAND_UM, BTN_EVENT_PRESS), Ev(BTN_BAND_UM, BTN_EVENT_RELEASE),
     Ev(BTN_BAND_VF, BTN_EVENT_PRESS),
     Ev(BTN_STATION_1, BTN_EVENT_RELEASE), Ev(BTN_STATION_1, BTN_EVENT_LONG_PRESS),
     Ev(BTN_UP, BTN_EVENT_RELEASE)}

\* Events handled in Radio mode: the encoder's, its Release included, and
\* those of a preset button
RadioEvents ==
    {Ev(BTN_ROTARY, t) : t \in {BTN_EVENT_PRESS, BTN_EVENT_RELEASE,
                                BTN_EVENT_ROTARY_CW, BTN_EVENT_ROTARY_CCW}}
    \cup {Ev(BTN_STATION_1, BTN_EVENT_RELEASE),
          Ev(BTN_STATION_1, BTN_EVENT_LONG_PRESS)}

\* Caller ids of a call status notification
CallerIds == {"Ann"}

\* on_bt_volume_changed takes a uint8_t: the volumes the audio stack reports
MaxVolumeReport == 16
VolumeReports == {MaxVolumeReport}
MaxReports == 1

\* What a2dpSinkHfpHf_start/stop_voice_recognition returns
VoiceResults == {ESP_OK, ESP_FAIL}

\* The tick count, in ms, advances in steps of TickSteps up to MaxTime
TickSteps == {500, 1000}
MaxTime == 1500

\* Averaged ADC readings of the button ladder, and the buttons a poll of the
\* ladder can report when its classification is left open
AdcReadings == {0, 99, 100, 161, 241, 242, 757, 4055, 4095}
PollResults == {BTN_NONE, BTN_STATION_1, BTN_UP}

(***************************************************************************)
(* Operations as actions.  hist is history, not program state.  While a    *)
(* call is in progress and only rotate events and call-active              *)
(* notifications followed its start, hist.call_from is the mode in which   *)
(* the call started, hist.from_off tells whether the system was powered    *)
(* off then, and hist.call_rotations counts the rotate events handled      *)
(* since; the three keep their values through the call-end notification.   *)
(* Otherwise hist.call_from is NoCall.  hist.rotations counts the rotate   *)
(* events handled in the run and hist.reports the volume notifications of  *)
(* the audio stack.  While station browsing is on, hist.browse_from holds  *)
(* the frequency that was tuned when it was entered and                    *)
(* hist.browse_rotations counts the rotate events handled since; once      *)
(* browsing was toggled off after a rotate event, and until the next       *)
(* recall of a preset or commit of the timer, hist.cancelled_from holds    *)
(* that frequency, and hist.fired tells whether a tune timer has expired   *)
(* since.                                                                  *)
(*                                                                         *)
(* out is history as well: out.enc_long_presses counts the LongPress       *)
(* events handed to the callback for the encoder button since it was last  *)
(* pressed down, out.adc_long_presses those for the ladder since the polls *)
(* last reported a change; out.polled is what the last poll reported,      *)
(* out.press_open the ladder button whose Press was emitted and which      *)
(* every poll since has reported (BTN_NONE if none), out.was_open its      *)
(* value before the last poll, and out.emitted the events the iteration of *)
(* the last poll has called the callback with.                             *)
(***************************************************************************)
vars == <<sm, hist, btn, out>>

NoCall == MODE_OFF - 1

IsRotate(event) == event.event \in {BTN_EVENT_ROTARY_CW, BTN_EVENT_ROTARY_CCW}

NoHist == [call_from |-> NoCall, from_off |-> FALSE, call_rotations |-> 0,
           rotations |-> 0, reports |-> 0,
           browse_from |-> << >>, browse_rotations |-> 0,
           cancelled_from |-> << >>, fired |-> FALSE,
           stored |-> [b \in Bands |-> [i \in 0..4 |-> << >>]],
           reloaded |-> FALSE, handled |-> << >>, clamped |-> 0,
           clock |-> 0, timers |-> {}, rotated_at |-> << >>, stale |-> {},
           created |-> 0, finished |-> {}, deleted |-> << >>,
           seek |-> << >>]

\* The history after a step that is neither a rotate event nor a call status
\* notification
Forget(h) == [h EXCEPT !.call_from = NoCall, !.from_off = FALSE,
                        !.call_rotations = 0]

\* The history of station browsing after the handler took the state machine
\* from s to next on this event
Browsed(h, s, event, next) ==
    LET entered  == ~s.g_browsing_stations /\ next.g_browsing_stations
        left     == s.g_browsing_stations /\ ~next.g_browsing_stations
        recalled == next.g_radio_state.frequency # s.g_radio_state.frequency
        rotated  == /\ IsRotate(event)
                    /\ s.g_browsing_stations
                    /\ s.g_current_mode = MODE_RADIO
    IN  [h EXCEPT
           !.browse_from = IF recalled \/ left THEN << >>
                           ELSE IF entered THEN <<s.g_radio_state.frequency>>
                           ELSE @,
           !.browse_rotations = IF recalled \/ left \/ entered THEN 0
                                ELSE IF rotated THEN @ + 1
                                ELSE @,
           !.cancelled_from = IF recalled THEN << >>
                              ELSE IF left /\ h.browse_rotations > 0
                              THEN h.browse_from
                              ELSE @,
           !.fired = IF recalled \/ (left /\ h.browse_rotations > 0) THEN FALSE
                     ELSE @]

NoOut == [enc_long_presses |-> 0, adc_long_presses |-> 0, polled |-> BTN_NONE,
          press_open |-> BTN_NONE, was_open |-> BTN_NONE, emitted |-> << >>,
          ticks |-> 0, held |-> << >>, displacement |-> 0, rotated |-> << >>,
          trail |-> << >>, sampled |-> << >>, resampled |-> << >>,
          dropped |-> << >>,
          in_press |-> FALSE, long_at |-> << >>, repeat_at |-> << >>,
          down_at |-> << >>, presses |-> 0, tags |-> << >>, longs |-> {},
          released |-> {}]

Step(next) ==
    /\ sm' = next
    /\ hist' = Forget(hist)
    /\ UNCHANGED <<btn, out>>

\* A power cycle: the process restarts with its static initialisers and runs
\* stereo_state_init on the NVS content the last run left; buttons_init
\* starts the tasks anew.
PowerUp ==
    /\ sm' = stereo_state_init(StaticState(sm.nvs))
    /\ hist' = [NoHist EXCEPT !.rotations = hist.rotations,
                              !.reports = hist.reports]
    /\ btn' = [ButtonsStatics EXCEPT !.sw = btn.sw, !.clk = btn.clk, !.dt = btn.dt]
    /\ out' = NoOut

HandleButton(event, voice_ret) ==
    /\ IsRotate(event) => hist.rotations < MaxRotations
    /\ sm' = stereo_state_handle_button(Begin(sm), event, voice_ret)
    /\ hist' = Browsed(IF IsRotate(event)
                       THEN [hist EXCEPT !.rotations = @ + 1,
                                         !.call_rotations =
                                             IF hist.call_from = NoCall THEN 0
                                             ELSE @ + 1]
                       ELSE Forget(hist),
                       sm, event, sm')
    /\ UNCHANGED <<btn, out>>

SetPower(on) == Step(stereo_state_set_power(Begin(sm), on))

SetMode(mode) == Step(stereo_state_set_mode(Begin(sm), mode))

HfpCallStatus(call_active, caller_id) ==
    /\ sm' = stereo_state_hfp_call_status(Begin(sm), call_active, caller_id)
    /\ hist' =
          IF sm.g_current_mode # MODE_PHONE_CALL
          THEN IF call_active
               THEN [hist EXCEPT !.call_from = sm.g_current_mode,
                                 !.from_off = ~sm.g_powered_on,
                                 !.call_rotations = 0]
               ELSE Forget(hist)
          ELSE hist
    /\ UNCHANGED <<btn, out>>

A2dpStreaming(streaming) ==
    Step(stereo_state_a2dp_streaming(Begin(sm), streaming))

A2dpAudioStateCallback(streaming) ==
    Step(a2dp_audio_state_callback(Begin(sm), streaming))

BtDeviceConnected(addr) ==
    Step(stereo_state_bt_device_connected(Begin(sm), addr))

BtDeviceDisconnected(addr) ==
    Step(stereo_state_bt_device_disconnected(Begin(sm), addr))

BtConnectionCallback(connected, addr) ==
    Step(bt_connection_callback(Begin(sm), connected, addr))

OnBtVolumeChanged(target, new_volume) ==
    /\ hist.reports < MaxReports
    /\ sm' = on_bt_volume_changed(Begin(sm), target, new_volume)
    /\ hist' = [Forget(hist) EXCEPT !.reports = @ + 1]
    /\ UNCHANGED <<btn, out>>

Save == Step(stereo_state_save(Begin(sm)))

\* A "tune_timer" task's delay is over and it runs to its vTaskDelete(NULL)
TuneTimerExpires(task) ==
    /\ task \in sm.tune_tasks
    /\ sm' = station_tune_timer_callback(Begin(sm), task)
    /\ hist' = IF sm.g_browsing_stations
               THEN [Forget(hist) EXCEPT !.browse_from = << >>,
                                         !.browse_rotations = 0,
                                         !.cancelled_from = << >>,
                                         !.fired = FALSE]
               ELSE [Forget(hist) EXCEPT !.fired = hist.cancelled_from # << >>
                                                   \/ hist.fired]
    /\ UNCHANGED <<btn, out>>

(***************************************************************************)
(* buttons.c as actions: the tick count, the pin edges with the ISR they   *)
(* raise, and the steps of the three tasks.                                *)
(***************************************************************************)
\* The tasks that are inside the application callback
InCallback ==
    {task \in {"rotary_event", "btn_monitor", "button_monitor"} :
        \/ task = "rotary_event" /\ btn.rotary_event # NoEvent
        \/ task = "btn_monitor" /\ btn.monitor_pc = "callback"
        \/ task = "button_monitor" /\ btn.adc_event # NoEvent}

\* The callback returns to the task that called it with this event
CallbackReturns(event) ==
    /\ \E voice_ret \in VoiceResults :
          sm' = button_event_callback(Begin(sm), event, voice_ret)
    /\ hist' = IF IsRotate(event)
               THEN [hist EXCEPT !.call_rotations =
                                     IF hist.call_from = NoCall THEN 0 ELSE @ + 1]
               ELSE Forget(hist)

Tick(d) ==
    /\ btn.now + d <= MaxTime
    /\ btn' = [btn EXCEPT !.now = @ + d]
    /\ UNCHANGED <<sm, hist, out>>

\* The encoder button goes down or up
SwEdge ==
    /\ btn' = rotary_encoder_isr([btn EXCEPT !.sw = 1 - @])
    /\ out' = IF btn.sw = 1 THEN [out EXCEPT !.enc_long_presses = 0] ELSE out
    /\ UNCHANGED <<sm, hist>>

\* The encoder is turned by one phase: CLK or DT changes
ClkEdge ==
    /\ btn' = rotary_encoder_isr([btn EXCEPT !.clk = 1 - @])
    /\ UNCHANGED <<sm, hist, out>>

DtEdge ==
    /\ btn' = rotary_encoder_isr([btn EXCEPT !.dt = 1 - @])
    /\ UNCHANGED <<sm, hist, out>>

\* button_long_press_monitor_task: its delay is over, it reads the two flags
MonitorCheck ==
    /\ btn.monitor_pc = "delay"
    /\ btn' = IF btn.g_rotary_pressed /\ ~btn.g_long_press_sent
              THEN [btn EXCEPT !.monitor_pc = "duration"]
              ELSE btn
    /\ UNCHANGED <<sm, hist, out>>

\* it reads the tick count and the press start, and calls g_callback with
\* the long press
MonitorDuration ==
    /\ btn.monitor_pc = "duration"
    /\ LET press_duration == U32Sub(btn.now, btn.g_rotary_press_start)
       IN  IF press_duration >= LONG_PRESS_THRESHOLD_MS
           THEN /\ btn' = [btn EXCEPT !.monitor_pc = "callback"]
                /\ out' = [out EXCEPT !.enc_long_presses = @ + 1]
           ELSE /\ btn' = [btn EXCEPT !.monitor_pc = "delay"]
                /\ out' = out
    /\ UNCHANGED <<sm, hist>>

MonitorReturn ==
    /\ btn.monitor_pc = "callback"
    /\ CallbackReturns(Ev(BTN_ROTARY, BTN_EVENT_LONG_PRESS))
    /\ btn' = [btn EXCEPT !.monitor_pc = "sent"]
    /\ out' = out

MonitorSetSent ==
    /\ btn.monitor_pc = "sent"
    /\ btn' = [btn EXCEPT !.g_long_press_sent = TRUE, !.monitor_pc = "delay"]
    /\ UNCHANGED <<sm, hist, out>>

\* rotary_event_task: xQueueReceive returns an event, g_callback is called
DispatcherReceive ==
    /\ btn.rotary_event = NoEvent
    /\ btn.g_button_queue # << >>
    /\ btn' = [btn EXCEPT !.rotary_event = Head(btn.g_button_queue),
                          !.g_button_queue = Tail(@)]
    /\ UNCHANGED <<sm, hist, out>>

DispatcherReturn ==
    /\ btn.rotary_event # NoEvent
    /\ CallbackReturns(btn.rotary_event)
    /\ btn' = [btn EXCEPT !.rotary_event = NoEvent]
    /\ out' = out

\* adc_button_monitor_task: an iteration starts with the button read
AdcPoll(current_button) ==
    /\ btn.adc_event = NoEvent
    /\ btn' = adc_loop_body(btn, current_button)
    /\ LET event == btn'.adc_event
       IN  out' = [out EXCEPT
             !.emitted = IF event = NoEvent THEN << >> ELSE <<event>>,
             !.polled = current_button,
             !.was_open = out.press_open,
             !.press_open =
                 IF event # NoEvent /\ event.event = BTN_EVENT_PRESS
                 THEN event.button
                 ELSE IF current_button = out.press_open THEN out.press_open
                 ELSE BTN_NONE,
             !.adc_long_presses =
                 (IF current_button # out.polled THEN 0 ELSE @)
                 + (IF event # NoEvent /\ event.event = BTN_EVENT_LONG_PRESS
                    THEN 1 ELSE 0)]
    /\ UNCHANGED <<sm, hist>>

\* g_callback returns to adc_button_monitor_task, which goes on
AdcReturn ==
    /\ btn.adc_event # NoEvent
    /\ CallbackReturns(btn.adc_event)
    /\ btn' = adc_after_callback(btn)
    /\ out' = IF btn'.adc_event = NoEvent THEN out
              ELSE [out EXCEPT !.emitted = Append(@, btn'.adc_event)]

Init ==
    /\ sm = stereo_state_init(StaticState(<< >>))
    /\ hist = NoHist
    /\ btn = ButtonsStatics
    /\ out = NoOut

(***************************************************************************)
(* Spec: the mode state machine under its public operations, driven by the *)
(* encoder events of the input pipeline and by the audio stack's call and  *)
(* streaming notifications.                                                *)
(***************************************************************************)
Next ==
    \/ PowerUp
    \/ \E event \in EncoderEvents : HandleButton(event, ESP_OK)
    \/ \E on \in BOOLEAN : SetPower(on)
    \/ \E mode \in Modes : SetMode(mode)
    \/ \E active \in BOOLEAN, id \in CallerIds : HfpCallStatus(active, id)
    \/ \E streaming \in BOOLEAN : A2dpStreaming(streaming)
    \/ Save

Spec == Init /\ [][Next]_vars
(***************************************************************************)
(* Properties of the mode state machine, checked under Spec.               *)
(***************************************************************************)
Range(seq) == {seq[i] : i \in DOMAIN seq}

EncoderPress == Ev(BTN_ROTARY, BTN_EVENT_PRESS)

Clamp15(v) == IF v < 0 THEN 0 ELSE IF v > 15 THEN 15 ELSE v

PowerOffNotification ==
    [type |-> "DISPLAY_MODE_CHANGE", text |-> <<"Power OFF">>, subtext |-> NullStr,
     duration_ms |-> 1000, priority |-> 150]

PowerOnNotification ==
    [type |-> "DISPLAY_MODE_CHANGE", text |-> <<"Power ON">>, subtext |-> NullStr,
     duration_ms |-> 1500, priority |-> 150]

CallEndedNotification ==
    [type |-> "DISPLAY_CALL_ACTIVE", text |-> <<"Call Ended">>, subtext |-> NullStr,
     duration_ms |-> 2000, priority |-> 200]

\* C1: in every state reachable through the public operations, powered_on
\* is false if and only if the mode is Off.
C1_PoweredOffIffModeOff ==
    (sm.g_powered_on = FALSE) <=> (sm.g_current_mode = MODE_OFF)

\* C6: in PhoneCall mode an encoder-button Press sends the hang-up command,
\* sets the mode to the mode recorded before the call, and leaves the system
\* powered on.
C6_PressEndsCall ==
    [][(sm.g_current_mode = MODE_PHONE_CALL /\ HandleButton(EncoderPress, ESP_OK))
        => /\ <<"hangup_call">> \in Range(sm'.audio)
           /\ sm'.g_current_mode = sm.g_mode_before_call
           /\ sm'.g_powered_on]_vars

\* C7: in PhoneCall mode RotateCW / RotateCCW moves the call speaker volume
\* by one within 0..15, forwards the new call speaker volume to the audio
\* stack and leaves the A2DP volume and the radio volume unchanged.
C7_RotateAdjustsCallVolume ==
    [][\A d \in {1, -1} :
         (/\ sm.g_current_mode = MODE_PHONE_CALL
          /\ HandleButton(Ev(BTN_ROTARY, IF d = 1 THEN BTN_EVENT_ROTARY_CW
                                         ELSE BTN_EVENT_ROTARY_CCW), ESP_OK))
         => /\ sm'.g_hfp_state.speaker_volume =
                   Clamp15(sm.g_hfp_state.speaker_volume + d)
            /\ sm'.audio = <<<<"set_hfp_speaker_volume",
                               sm'.g_hfp_state.speaker_volume>>>>
            /\ sm'.g_a2dp_state.volume = sm.g_a2dp_state.volume
            /\ sm'.g_radio_state.volume = sm.g_radio_state.volume]_vars

\* C8: with powered_on false, an incoming-call notification powers the
\* system on, sets the mode to PhoneCall and records Radio as the mode to
\* restore; the call-end notification of that call sets the mode to Radio.
\* Stated for the powered-off states in which the mode is Off, the ones C1
\* allows.
C8_CallWhileOffRestoresRadio ==
    [][/\ \A id \in CallerIds :
            (/\ ~sm.g_powered_on /\ sm.g_current_mode = MODE_OFF
             /\ HfpCallStatus(TRUE, id))
            => /\ sm'.g_powered_on
               /\ sm'.g_current_mode = MODE_PHONE_CALL
               /\ sm'.g_mode_before_call = MODE_RADIO
       /\ \A id \in CallerIds :
            (/\ sm.g_current_mode = MODE_PHONE_CALL
             /\ hist.call_from = MODE_OFF /\ hist.from_off
             /\ HfpCallStatus(FALSE, id))
            => sm'.g_current_mode = MODE_RADIO]_vars

\* A call that started with the system powered on in one of the modes Radio,
\* Bluetooth, Phonebook, followed only by rotate events and call-active
\* notifications, is ended by this step.
CleanCallEnds ==
    /\ sm.g_current_mode = MODE_PHONE_CALL
    /\ hist.call_from \in {MODE_RADIO, MODE_BLUETOOTH, MODE_PHONEBOOK}
    /\ ~hist.from_off
    /\ \E id \in CallerIds : HfpCallStatus(FALSE, id)

\* C9: a call that starts with the system powered on in mode M (Radio,
\* Bluetooth or Phonebook), with only rotate events and call-active
\* notifications during the call, ends with the mode set back to exactly M.
C9_CallEndRestoresStartMode ==
    [][CleanCallEnds => sm'.g_current_mode = hist.call_from]_vars

\* C9 (amended): such a call ends with the mode set back to M when M is Radio
\* or Bluetooth, and set to Radio when M is Phonebook.
C9_CallEndRestoresPreemptedMode ==
    [][CleanCallEnds
        => sm'.g_current_mode = IF hist.call_from = MODE_PHONEBOOK
                                THEN MODE_RADIO
                                ELSE hist.call_from]_vars

\* A call started in Phonebook, with a rotate event during the call, has just
\* been ended and Radio restored
C9_Witness ==
    /\ hist.call_from = MODE_PHONEBOOK
    /\ ~hist.from_off
    /\ hist.call_rotations > 0
    /\ sm.display = <<CallEndedNotification>>
    /\ sm.mode_cb = <<<<MODE_PHONE_CALL, MODE_RADIO>>>>
    /\ sm.g_current_mode = MODE_RADIO

\* The state apart from power, mode, the persistent store and the outputs
\* of the last operation
BesidesPower(s) ==
    [s EXCEPT !.g_powered_on = FALSE, !.g_current_mode = MODE_OFF,
              !.nvs = << >>, !.nvs_writes = 0,
              !.audio = << >>, !.display = << >>, !.mode_cb = << >>]

\* C10: an encoder-button Press toggles power in every mode: from Off to
\* powered on in Radio, from any other mode to powered off in Off; no mode
\* handler runs: nothing is sent to the audio stack, only the power
\* notification is displayed, and no other state changes.
C10_EncoderPressTogglesPower ==
    [][HandleButton(EncoderPress, ESP_OK)
        => /\ IF sm.g_current_mode = MODE_OFF
              THEN /\ sm'.g_powered_on = TRUE
                   /\ sm'.g_current_mode = MODE_RADIO
                   /\ sm'.display = <<PowerOnNotification>>
              ELSE /\ sm'.g_powered_on = FALSE
                   /\ sm'.g_current_mode = MODE_OFF
                   /\ sm'.display = <<PowerOffNotification>>
           /\ sm'.audio = << >>
           /\ BesidesPower(sm') = BesidesPower(sm)]_vars

\* The encoder button was pressed during a call: the system is off
C10_Witness ==
    /\ sm.display = <<PowerOffNotification>>
    /\ sm.mode_cb = <<<<MODE_PHONE_CALL, MODE_OFF>>>>
    /\ sm.g_current_mode = MODE_OFF
    /\ ~sm.g_powered_on

(***************************************************************************)
(* The volume fields under every operation that writes them: rotate events *)
(* in each mode, the audio stack's volume notifications, the per-device    *)
(* volumes saved at disconnect and restored at connect, and the load at    *)
(* start-up.                                                               *)
(***************************************************************************)
NextVolume ==
    \/ PowerUp
    \/ \E event \in EncoderEvents : HandleButton(event, ESP_OK)
    \/ \E streaming \in BOOLEAN : A2dpStreaming(streaming)
    \/ \E target \in VolumeTargets, v \in VolumeReports : OnBtVolumeChanged(target, v)
    \/ \E addr \in Addrs : BtDeviceConnected(addr)
    \/ \E addr \in Addrs : BtDeviceDisconnected(addr)

SpecVolume == Init /\ [][NextVolume]_vars

\* C5: in every reachable state the radio volume, the A2DP volume, the HFP
\* speaker volume and the HFP microphone volume are all within 0..15.
C5_VolumesInRange ==
    /\ sm.g_radio_state.volume \in 0..15
    /\ sm.g_a2dp_state.volume \in 0..15
    /\ sm.g_hfp_state.speaker_volume \in 0..15
    /\ sm.g_hfp_state.mic_volume \in 0..15

(***************************************************************************)
(* SpecButtons: buttons.c as built, feeding the state machine: the encoder *)
(* pins and their ISR, the long-press monitor, the dispatcher and the      *)
(* polling task, whose adc_read_button classifies every reading as         *)
(* BTN_NONE, so that this task never calls the callback.                   *)
(***************************************************************************)
NextEncoder ==
    \/ \E d \in TickSteps : Tick(d)
    \/ SwEdge
    \/ ClkEdge
    \/ DtEdge
    \/ MonitorCheck
    \/ MonitorDuration
    \/ MonitorReturn
    \/ MonitorSetSent
    \/ DispatcherReceive
    \/ DispatcherReturn

NextButtons ==
    \/ NextEncoder
    \/ \E adc_reading \in AdcReadings : AdcPoll(adc_read_button(adc_reading))

SpecButtons == Init /\ [][NextButtons]_vars

\* C2: the state machine is mutated by the dispatcher alone: whenever a task
\* is inside the button-event handler it is rotary_event_task, the task that
\* drains the queue, so that no two invocations overlap.
C2_OnlyDispatcherInHandler ==
    /\ InCallback \subseteq {"rotary_event"}
    /\ Cardinality(InCallback) <= 1

(***************************************************************************)
(* SpecLadder: the pipeline with the classification of the ladder left     *)
(* open: a poll reports a button or none.  The encoder button goes down    *)
(* and up and the encoder moves between rest and the next phase.           *)
(***************************************************************************)
NextLadder ==
    \/ \E d \in TickSteps : Tick(d)
    \/ SwEdge
    \/ DtEdge
    \/ MonitorCheck
    \/ MonitorDuration
    \/ MonitorReturn
    \/ MonitorSetSent
    \/ DispatcherReceive
    \/ DispatcherReturn
    \/ \E current_button \in {BTN_NONE, BTN_UP} : AdcPoll(current_button)
    \/ AdcReturn

SpecLadder == Init /\ [][NextLadder]_vars

\* C3: for every continuous press of the encoder button or of a ladder
\* button, the LongPress event is handed to the callback at most once, under
\* every interleaving of the ISR, the long-press monitor and the polling
\* task.
C3_LongPressAtMostOnce ==
    /\ out.enc_long_presses <= 1
    /\ out.adc_long_presses <= 1

\* The encoder button and a ladder button are both still held, each had its
\* LongPress, and the monitor and the polling task have looked again since
C3_Witness ==
    /\ btn.sw = 0 /\ btn.g_rotary_pressed /\ btn.g_long_press_sent
    /\ btn.monitor_pc = "delay"
    /\ out.enc_long_presses = 1
    /\ out.polled = BTN_UP /\ btn.last_button = BTN_UP /\ btn.long_press_sent
    /\ btn.adc_event = NoEvent
    /\ out.adc_long_presses = 1
    /\ out.emitted = << >>

(***************************************************************************)
(* SpecPoll: the polling loop of adc_button_monitor_task under any         *)
(* sequence of poll results, its events handled by the state machine,      *)
(* which is switched on and off.                                           *)
(***************************************************************************)
NextPoll ==
    \/ \E d \in TickSteps : Tick(d)
    \/ \E current_button \in PollResults : AdcPoll(current_button)
    \/ AdcReturn
    \/ \E on \in BOOLEAN : SetPower(on)

SpecPoll == Init /\ [][NextPoll]_vars

\* C4: after Press(X) is emitted, a poll that reports X again emits no
\* second Press, and the poll at which the reading goes from X back to none
\* emits exactly one Release(X).
C4_OnePressOneRelease ==
    /\ (out.was_open # BTN_NONE /\ out.polled = out.was_open)
       => \A i \in DOMAIN out.emitted : out.emitted[i].event # BTN_EVENT_PRESS
    /\ (out.was_open # BTN_NONE /\ out.polled = BTN_NONE)
       => /\ Cardinality({i \in DOMAIN out.emitted :
                            out.emitted[i].event = BTN_EVENT_RELEASE}) = 1
          /\ Ev(out.was_open, BTN_EVENT_RELEASE) \in Range(out.emitted)

\* BTN_UP was held over polls a long press apart and has just been released
C4_Witness ==
    /\ out.was_open = BTN_UP
    /\ out.polled = BTN_NONE
    /\ btn.long_press_sent
    /\ out.emitted = <<Ev(BTN_UP, BTN_EVENT_RELEASE)>>


(***************************************************************************)
(* SpecPanel: the state machine under every event of the front panel, with *)
(* a voice-recognition call of the audio stack that succeeds or fails, and *)
(* under the audio stack's notifications.                                  *)
(***************************************************************************)
NextPanel ==
    \/ PowerUp
    \/ \E event \in PanelEvents, voice_ret \in VoiceResults :
          HandleButton(event, voice_ret)
    \/ \E on \in BOOLEAN : SetPower(on)
    \/ \E active \in BOOLEAN, id \in CallerIds : HfpCallStatus(active, id)
    \/ \E streaming \in BOOLEAN : A2dpStreaming(streaming)

SpecPanel == Init /\ [][NextPanel]_vars

\* The state machine's variables: the state apart from the log of the calls
\* the operation made
Variables(s) == [Begin(s) EXCEPT !.nvs = << >>]

\* The operation made no call to a collaborator and wrote nothing to NVS
Silent(s) ==
    /\ s.audio = << >>
    /\ s.display = << >>
    /\ s.mode_cb = << >>
    /\ s.nvs_writes = 0

\* C11: while powered_on is false, a button event other than the encoder
\* short press changes no variable of the state machine, the
\* voice-recognition flag included, and sends no command to the audio
\* stack, no display notification and no write to NVS.
C11_EventsDiscardedWhileOff ==
    [][\A event \in PanelEvents \ {EncoderPress}, voice_ret \in VoiceResults :
         (~sm.g_powered_on /\ HandleButton(event, voice_ret))
         => /\ Variables(sm') = Variables(sm)
            /\ sm'.nvs = sm.nvs
            /\ Silent(sm')]_vars

\* A request to start voice recognition that must be turned down
StartRejected ==
    \/ sm.g_voice_recognition_active
    \/ ~sm.g_powered_on
    \/ sm.g_current_mode \notin {MODE_RADIO, MODE_BLUETOOTH}

\* C12: a request to start voice recognition made while a session is active,
\* or while the system is powered off or in a mode other than Radio or
\* Bluetooth, sends no start command to the audio stack, leaves the active
\* flag unchanged and emits a display notification.
C12_VoiceStartRejected ==
    [][\A voice_ret \in VoiceResults :
         (StartRejected /\ HandleButton(Ev(BTN_BAND_UM, BTN_EVENT_PRESS), voice_ret))
         => /\ <<"start_voice_recognition">> \notin Range(sm'.audio)
            /\ sm'.g_voice_recognition_active = sm.g_voice_recognition_active
            /\ sm'.display # << >>]_vars

\* What save_to_nvs keeps of the mode, the power state, the volumes and the
\* presets, as the store holds it
Persistent(s) ==
    [k \in {"power_on", "mode", "radio_vol", "a2dp_vol", "hfp_spk_vol",
            "hfp_mic_vol"} \cup {PresetKey(b, i) : b \in Bands, i \in 0..4} |->
        save_to_nvs(s).nvs[k]]

\* The persisted copy of these values
Persisted(s) ==
    [k \in DOMAIN Persistent(s) |-> IF NvsHas(s, k) THEN s.nvs[k] ELSE NullStr]

\* C15: when a public operation that changed the mode, the power state, a
\* volume or a preset returns, the persisted copy of each of these values
\* equals the value in memory.  (The start of the process, which loads the
\* values, is not one of these operations.)
C15_ChangesArePersisted ==
    [][(~PowerUp /\ Persistent(sm') # Persistent(sm))
        => Persisted(sm') = Persistent(sm')]_vars


(***************************************************************************)
(* SpecRadio: the radio under the events it handles and the tune timer;    *)
(* power-off and the start of a call take the mode away from Radio.        *)
(***************************************************************************)
NextRadio ==
    \/ PowerUp
    \/ \E event \in RadioEvents : HandleButton(event, ESP_OK)
    \/ \E task \in sm.tune_tasks : TuneTimerExpires(task)
    \/ \E active \in BOOLEAN, id \in CallerIds : HfpCallStatus(active, id)

SpecRadio == Init /\ [][NextRadio]_vars

\* The tuned frequency, the radio volume and the presets
RadioSettings(s) ==
    <<s.g_radio_state.frequency, s.g_radio_state.volume,
      s.g_radio_state.preset_freq>>

\* C13: the tuned frequency, the radio volume and the presets change only
\* in steps taken while the mode is Radio; a pending commit of station
\* browsing does not change the tuned frequency once the mode has left
\* Radio.  (The start of the process, which loads the values, aside.)
C13_RadioChangesOnlyInRadio ==
    [][(sm.g_current_mode # MODE_RADIO /\ ~PowerUp)
        => RadioSettings(sm') = RadioSettings(sm)]_vars

\* C14: once station browsing was entered, rotate events were handled and
\* browsing was toggled off before the tune timer expired, the tuned
\* frequency is the one tuned before browsing was entered: when the timer
\* expires and at every later time until the next recall or commit.
C14_CancelledBrowsingKeepsFrequency ==
    hist.cancelled_from # << >>
    => sm.g_radio_state.frequency = hist.cancelled_from[1]

\* Browsing was toggled off with another candidate than the tuned frequency
\* and the tune timer has expired since
C14_Witness ==
    /\ hist.cancelled_from # << >>
    /\ hist.fired
    /\ sm.tune_tasks = {}
    /\ ~sm.g_browsing_stations
    /\ sm.g_browsing_station_freq # sm.g_radio_state.frequency
    /\ sm.g_radio_state.frequency = hist.cancelled_from[1]


(***************************************************************************)
(* The classification of the ladder, checked under SpecButtons.            *)
(***************************************************************************)
\* The band of ladder button i, 1..NUM_BUTTONS
Band(i) ==
    (button_thresholds[i] - THRESHOLD_TOLERANCE) ..
        (button_thresholds[i] + THRESHOLD_TOLERANCE)

\* C16: the read of the ladder returns button i whenever the averaged
\* sample lies in the band of button i, and none when the average is below
\* the noise floor or in no band; the nine bands are pairwise disjoint and
\* lie above the noise floor.
C16_ReadClassifiesBands ==
    [][/\ \A i, j \in 1..NUM_BUTTONS : i # j => Band(i) \cap Band(j) = {}
       /\ \A i \in 1..NUM_BUTTONS : \A v \in Band(i) : v >= 100
       /\ \A adc_reading \in AdcReadings :
            AdcPoll(adc_read_button(adc_reading))
            => btn'.current_button =
                  IF \E i \in 1..NUM_BUTTONS : adc_reading \in Band(i)
                  THEN CHOOSE i \in 1..NUM_BUTTONS : adc_reading \in Band(i)
                  ELSE BTN_NONE]_vars

(***************************************************************************)
(* SpecDecoder: the encoder ISR alone, under every movement of its three   *)
(* pins.  The knob turns by one phase (CLK or DT changes), the button goes *)
(* down or up, a pin bounces and is back at its level when the ISR reads   *)
(* it; the tick count advances between the invocations.  Beside the        *)
(* statics, out records what the pins did:                                 *)
(*   held         <<d>> when the last invocation took the release branch   *)
(*                after a hold of d ms                                     *)
(*   displacement the net number of phases the knob has physically moved   *)
(*                since the code last set the accumulator to zero          *)
(*   rotated      <<type, n>> when the last invocation sent a rotate event *)
(*                of that type, with the knob n phases from where it was   *)
(*   trail        the decoder phase and the accumulator before each of the *)
(*                last (at most four) decoded transitions, all valid and   *)
(*                decoded by consecutive sampling invocations              *)
(*   sampled      <<phase pair>> read by the last invocation, if it read   *)
(*   resampled    <<accumulator before>> when the last invocation read the *)
(*                phase pair its predecessor read                          *)
(*   dropped      the events the last invocation sent to a full queue      *)
(***************************************************************************)
HoldTicks == {DEBOUNCE_MS, DEBOUNCE_MS + 1, LONG_PRESS_THRESHOLD_MS}
MaxDecoderTicks == 5
MaxDisplacement == 3

Phase(b) == 2 * b.clk + b.dt

\* The invocation reads the pins: it is not inside the debounce window
Samples(b) == U32Sub(b.now, b.g_last_rotary_time) >= ROTARY_DEBOUNCE_MS

AtRest(b) == b.clk = 1 /\ b.dt = 1

\* The branch a sampling invocation takes
TakesRelease(b) == b.sw = 1 /\ b.g_rotary_pressed /\ AtRest(b)

TakesDecoding(b) == ~(b.sw = 0 /\ AtRest(b)) /\ ~TakesRelease(b)

\* The phases the knob moves by when the pins go from those of b to those
\* of c: one pin changes at a time, or none
Moved(b, c) == rotary_transition_table[Phase(b) + 1][Phase(c) + 1]

\* The events the ISR sends when it runs on b: what it puts into an empty
\* queue
Emits(b) == rotary_encoder_isr([b EXCEPT !.g_button_queue = << >>]).g_button_queue

\* out after the ISR ran on b, the statics with the pins as they now are,
\* and left next
Observed(o, b, next) ==
    LET new_press == Samples(b) /\ b.sw = 0 /\ AtRest(b) /\ ~b.g_rotary_pressed
        decodes   == Samples(b) /\ TakesDecoding(b)
        valid     == decodes /\ rotary_transition_table
                                  [b.g_encoder_state + 1][Phase(b) + 1] # 0
        sent      == decodes /\ Len(next.g_button_queue) > Len(b.g_button_queue)
        net       == o.displacement + Moved(btn, b)
        last      == Append(o.trail, [from |-> b.g_encoder_state,
                                      acc  |-> b.g_encoder_position])
    IN  [o EXCEPT
           !.held = IF Samples(b) /\ TakesRelease(b)
                    THEN <<U32Sub(b.now, b.g_rotary_press_start)>> ELSE << >>,
           !.displacement = IF new_press \/ sent THEN 0 ELSE net,
           !.rotated = IF sent
                       THEN <<next.g_button_queue
                                [Len(next.g_button_queue)].event, net>>
                       ELSE << >>,
           !.trail = IF ~Samples(b) THEN @
                     ELSE IF ~valid THEN << >>
                     ELSE IF Len(last) > 4 THEN Tail(last) ELSE last,
           !.sampled = IF Samples(b) THEN <<Phase(b)>> ELSE << >>,
           !.resampled = IF Samples(b) /\ o.sampled = <<Phase(b)>>
                         THEN <<b.g_encoder_position>> ELSE << >>,
           !.dropped = IF Len(b.g_button_queue) = QueueLength
                       THEN Emits(b) ELSE << >>]

\* rotary_encoder_isr runs with the pins as in b
Invoke(b) ==
    /\ btn' = rotary_encoder_isr(b)
    /\ out' = Observed(out, b, btn')
    /\ UNCHANGED <<sm, hist>>

DecoderTick(d) ==
    /\ out.ticks < MaxDecoderTicks
    /\ btn' = [btn EXCEPT !.now = @ + d]
    /\ out' = [out EXCEPT !.ticks = @ + 1]
    /\ UNCHANGED <<sm, hist>>

\* The encoder button goes down or up
Push == Invoke([btn EXCEPT !.sw = 1 - @])

\* The knob turns by one phase, not further than MaxDisplacement
TurnClk ==
    LET b == [btn EXCEPT !.clk = 1 - @]
    IN  /\ out.displacement + Moved(btn, b) \in -MaxDisplacement..MaxDisplacement
        /\ Invoke(b)

TurnDt ==
    LET b == [btn EXCEPT !.dt = 1 - @]
    IN  /\ out.displacement + Moved(btn, b) \in -MaxDisplacement..MaxDisplacement
        /\ Invoke(b)

\* A pin bounces: the ISR runs and reads the three pins at their old levels
IsrRefire == Invoke(btn)

NextDecoder ==
    \/ DecoderTick(ROTARY_DEBOUNCE_MS)
    \/ Push
    \/ TurnClk
    \/ TurnDt
    \/ IsrRefire

SpecDecoder == Init /\ [][NextDecoder]_vars

(***************************************************************************)
(* SpecRelease: the ISR under presses and releases of the encoder button   *)
(* held for any of the durations around its two thresholds, the knob       *)
(* moving between rest and the next phase.                                 *)
(***************************************************************************)
NextRelease ==
    \/ \E d \in HoldTicks : DecoderTick(d)
    \/ Push
    \/ TurnDt

SpecRelease == Init /\ [][NextRelease]_vars

\* What a release after a hold of d ms adds to the queue
ReleaseEvents(d) ==
    IF d >= LONG_PRESS_THRESHOLD_MS
    THEN <<Ev(BTN_ROTARY, BTN_EVENT_RELEASE_AFTER_LONG)>>
    ELSE IF d > DEBOUNCE_MS THEN <<EncoderPress>>
    ELSE << >>

\* The button goes up with the knob at rest and the pressed flag set
ReleasedAtRest == Push /\ btn.sw = 0 /\ AtRest(btn) /\ btn.g_rotary_pressed

\* C17 as stated: when the encoder button is released at rest after having
\* been recorded as pressed, the pressed flag is cleared and, by the held
\* duration d, ReleaseAfterLongPress alone is emitted (d >= 1000 ms), Press
\* alone (50 ms < d < 1000 ms), or nothing (d <= 50 ms).
C17_ReleaseOutcome ==
    [][ReleasedAtRest
       => /\ ~btn'.g_rotary_pressed
          /\ btn'.g_button_queue =
               btn.g_button_queue
                 \o ReleaseEvents(U32Sub(btn.now, btn.g_rotary_press_start))]_vars

\* C17, amended: the same, for a release whose ISR invocation is not
\* inside the debounce window of 5 ms after the last valid rotation step
\* and finds room in the queue.
C17_ReleaseOutcomeOutsideDebounce ==
    [][(/\ ReleasedAtRest
        /\ Samples(btn)
        /\ Len(btn.g_button_queue) < QueueLength)
       => /\ ~btn'.g_rotary_pressed
          /\ btn'.g_button_queue =
               btn.g_button_queue
                 \o ReleaseEvents(U32Sub(btn.now, btn.g_rotary_press_start))]_vars

\* A hold of 51 ms was released and gave the one Press
C17_Witness ==
    /\ out.held = <<DEBOUNCE_MS + 1>>
    /\ ~btn.g_rotary_pressed /\ btn.sw = 1
    /\ btn.g_button_queue = <<EncoderPress>>

\* C18: a RotateCW or RotateCCW event is emitted only when the knob has
\* physically moved, since the accumulator was last zeroed, by a net two
\* phases or more in that direction; movement that nets less (jitter, a half
\* step and back), some of its edges inside the debounce window or not,
\* emits no rotate event.  Checked under SpecDecoder.
C18_RotateOnlyOnNetDetent ==
    out.rotated # << >>
    => /\ out.rotated[1] = BTN_EVENT_ROTARY_CW => out.rotated[2] >= 2
       /\ out.rotated[1] = BTN_EVENT_ROTARY_CCW => out.rotated[2] <= -2

\* The last four decoded transitions were valid and brought the decoder
\* back to the phase it had before them
FullCycle ==
    Len(out.trail) = 4 /\ out.trail[1].from = btn.g_encoder_state

\* C19 as stated: for all sequences of valid Gray-code transitions, the
\* accumulated direction count after a full cycle of four transitions that
\* returns to the starting phase equals zero.
C19_CycleLeavesZero == FullCycle => btn.g_encoder_position = 0

\* C19, amended: four consecutive valid transitions that begin with the
\* accumulator at zero and return to the starting phase leave the
\* accumulator at zero.
C19_CycleFromZeroLeavesZero ==
    (FullCycle /\ out.trail[1].acc = 0) => btn.g_encoder_position = 0

\* A revolution clockwise from rest, through all four phases: it sent its
\* two RotateCW and the accumulator is back at zero
C19_Witness ==
    /\ FullCycle
    /\ [i \in 1..4 |-> out.trail[i].from] = <<3, 1, 0, 2>>
    /\ out.trail[1].acc = 0
    /\ btn.g_button_queue = <<Ev(BTN_ROTARY, BTN_EVENT_ROTARY_CW),
                              Ev(BTN_ROTARY, BTN_EVENT_ROTARY_CW)>>

\* C20: two consecutive invocations of the encoder ISR that sample the same
\* phase pair never change the detent accumulator: the second leaves it at
\* the value the first left it, whatever the button line reads.  Checked
\* under SpecDecoder.
C20_SamePhaseKeepsAccumulator ==
    out.resampled # << >> => btn.g_encoder_position = out.resampled[1]

(***************************************************************************)
(* SpecQueue: the knob turned clockwise, phase after phase, faster than    *)
(* the dispatcher drains the queue, the state machine being off.           *)
(***************************************************************************)
MaxQueueTime == 210

QueueTick ==
    /\ btn.now + ROTARY_DEBOUNCE_MS <= MaxQueueTime
    /\ btn' = [btn EXCEPT !.now = @ + ROTARY_DEBOUNCE_MS]
    /\ UNCHANGED <<sm, hist, out>>

\* The knob turns clockwise by one phase: 11, 01, 00, 10, 11
TurnCW == IF btn.clk = btn.dt THEN TurnClk ELSE TurnDt

NextQueue ==
    \/ QueueTick
    \/ TurnCW
    \/ DispatcherReceive
    \/ DispatcherReturn

SpecQueue == Init /\ [][NextQueue]_vars

\* The pins after at most one of them changed
PinMoves ==
    {btn, [btn EXCEPT !.sw = 1 - @], [btn EXCEPT !.clk = 1 - @],
     [btn EXCEPT !.dt = 1 - @]}

\* C21: the event queue never holds more than its capacity of 20 events; an
\* emission from the encoder ISR when the queue is full drops that event and
\* leaves the queued events and their order unchanged, and the ISR returns
\* without calling the application callback: no task enters the callback
\* and the state machine is not touched.
C21_FullQueueDropsEvent ==
    [][/\ Len(btn'.g_button_queue) <= QueueLength
       /\ \A b \in PinMoves :
            (/\ Invoke(b)
             /\ Len(btn.g_button_queue) = QueueLength
             /\ Emits(b) # << >>)
            => /\ btn'.g_button_queue = btn.g_button_queue
               /\ btn'.rotary_event = btn.rotary_event
               /\ btn'.monitor_pc = btn.monitor_pc
               /\ btn'.adc_event = btn.adc_event
               /\ sm' = sm]_vars

\* The queue holds twenty RotateCW and the ISR has just dropped one more
C21_Witness ==
    /\ Len(btn.g_button_queue) = QueueLength
    /\ \A i \in 1..QueueLength :
          btn.g_button_queue[i] = Ev(BTN_ROTARY, BTN_EVENT_ROTARY_CW)
    /\ out.dropped = <<Ev(BTN_ROTARY, BTN_EVENT_ROTARY_CW)>>

(***************************************************************************)
(* The order of delivery, checked under SpecButtons.  An event is          *)
(* generated when the ISR queues it or when the monitor or the polling     *)
(* task builds it, and delivered when the callback is called with it: for  *)
(* the monitor and the polling task the two are one step, for the ISR the  *)
(* event waits in the queue for the dispatcher.                            *)
(***************************************************************************)
\* The monitor or the polling task calls the callback with an event
DeliversDirectly ==
    \/ btn'.monitor_pc = "callback" /\ btn.monitor_pc # "callback"
    \/ btn'.adc_event # NoEvent /\ btn'.adc_event # btn.adc_event

\* C22: all events reach the callback as one stream, in the order in which
\* the ISR, the monitor and the polling task generated them: an event that
\* one producer generates later is never delivered before an event another
\* producer generated earlier, so that no event is delivered while an
\* earlier one still waits in the queue.
C22_DeliveredInGenerationOrder ==
    [][DeliversDirectly => btn.g_button_queue = << >>]_vars

(***************************************************************************)
(* LiveMonitor: the encoder button and the long-press monitor, the tick    *)
(* count advancing by the long-press threshold.  The monitor is a task of  *)
(* its own that the scheduler runs again and again: each of its steps is   *)
(* taken when it stays possible.                                           *)
(***************************************************************************)
MaxHoldTime == 3000

HoldTick ==
    /\ btn.now + LONG_PRESS_THRESHOLD_MS <= MaxHoldTime
    /\ btn' = [btn EXCEPT !.now = @ + LONG_PRESS_THRESHOLD_MS]
    /\ UNCHANGED <<sm, hist, out>>

NextMonitor ==
    \/ HoldTick
    \/ SwEdge
    \/ MonitorCheck
    \/ MonitorDuration
    \/ MonitorReturn
    \/ MonitorSetSent
    \/ DispatcherReceive
    \/ DispatcherReturn

LiveMonitor ==
    /\ Init
    /\ [][NextMonitor]_vars
    /\ WF_vars(MonitorCheck)
    /\ WF_vars(MonitorDuration)
    /\ WF_vars(MonitorReturn)
    /\ WF_vars(MonitorSetSent)

\* The button is down since a press recorded at rest at least the long-press
\* threshold ago, and no LongPress was delivered for this press
HeldLong ==
    /\ btn.sw = 0 /\ btn.g_rotary_pressed
    /\ U32Sub(btn.now, btn.g_rotary_press_start) >= LONG_PRESS_THRESHOLD_MS
    /\ out.enc_long_presses = 0

\* C23: when the encoder button is pressed at rest and stays pressed with no
\* further edge for the long-press threshold or more, a LongPress is
\* eventually delivered for that press, also for a press that begins while
\* the monitor is still delivering the LongPress of the press before.
C23_HeldPressGetsLongPress ==
    HeldLong ~> (out.enc_long_presses > 0 \/ btn.sw = 1)

(***************************************************************************)
(* SpecPreset: the radio with two of its preset buttons, station browsing  *)
(* and its timer, and power cycles that reload the state from NVS.         *)
(* hist.stored[b][i] is <<f>> once a long press stored f into slot i of    *)
(* band b, over power cycles too; hist.reloaded says that a power cycle    *)
(* followed the last store, and hist.handled is <<event>> when the last    *)
(* step was the handler's, on that event.                                  *)
(***************************************************************************)
PresetEvents ==
    {Ev(BTN_ROTARY, type) : type \in {BTN_EVENT_PRESS, BTN_EVENT_RELEASE,
                                      BTN_EVENT_ROTARY_CW}}
    \cup {Ev(BTN_STATION_1, BTN_EVENT_LONG_PRESS),
          Ev(BTN_STATION_1, BTN_EVENT_RELEASE),
          Ev(BTN_STATION_2, BTN_EVENT_LONG_PRESS)}

\* The history of the presets after the handler took s to next on this event
Preset(h, s, event, next) ==
    LET radio == s.g_powered_on /\ s.g_current_mode = MODE_RADIO
        idx   == event.button - BTN_STATION_1
        store == radio /\ IsStation(event.button)
                       /\ event.event = BTN_EVENT_LONG_PRESS
    IN  [h EXCEPT
           !.stored = IF store
                      THEN [@ EXCEPT ![s.g_current_band][idx] =
                                         <<s.g_radio_state.frequency>>]
                      ELSE @,
           !.reloaded = IF store THEN FALSE ELSE @,
           !.handled = <<event>>]

HandlePreset(event) ==
    /\ IsRotate(event) => hist.rotations < MaxRotations
    /\ sm' = stereo_state_handle_button(Begin(sm), event, ESP_OK)
    /\ hist' = Preset(IF IsRotate(event)
                      THEN [hist EXCEPT !.rotations = @ + 1]
                      ELSE hist,
                      sm, event, sm')
    /\ UNCHANGED <<btn, out>>

\* A power cycle, as PowerUp
Reboot ==
    /\ sm' = stereo_state_init(StaticState(sm.nvs))
    /\ hist' = [hist EXCEPT !.reloaded = TRUE, !.handled = << >>]
    /\ UNCHANGED <<btn, out>>

TuneTimerCommits(task) ==
    /\ task \in sm.tune_tasks
    /\ sm' = station_tune_timer_callback(Begin(sm), task)
    /\ hist' = [hist EXCEPT !.handled = << >>]
    /\ UNCHANGED <<btn, out>>

NextPreset ==
    \/ Reboot
    \/ \E event \in PresetEvents : HandlePreset(event)
    \/ \E task \in sm.tune_tasks : TuneTimerCommits(task)

SpecPreset == Init /\ [][NextPreset]_vars

\* The frequencies the program assigns: the default, the defaults of the
\* presets, and the candidates of station browsing
AssignedFrequencies ==
    {BrowseFreq(idx) : idx \in 0..19}
    \cup {FloatOfTenths(tenths) : tenths \in {875, 879, 953, 1011, 1057, 1079}}
    \cup {whole * FUnit : whole \in {540, 720, 950, 1200, 1450}}

InRadio(s) == s.g_powered_on /\ s.g_current_mode = MODE_RADIO

\* C24: a frequency stored into preset slot i of a band by a long press is
\* what a later release of button i recalls on that band, exactly, whatever
\* tuning, stores to other slots and power cycles (a save and a load through
\* the encoding as hundredths in a uint32) came between; the store changes
\* no slot other than [current band][i].
C24_StoredPresetIsRecalled ==
    [][/\ (hist'.reloaded /\ ~hist.reloaded)
          => \A f \in AssignedFrequencies :
                U32Div100ToFloat(FloatTimes100ToU32(f)) = f
       /\ \A b \in Bands, i \in 0..4 :
             hist'.stored[b][i] # << >>
             => sm'.g_radio_state.preset_freq[b][i] = hist'.stored[b][i][1]
       /\ \A button \in {BTN_STATION_1, BTN_STATION_2} :
             LET i == button - BTN_STATION_1
                 b == sm.g_current_band
             IN  /\ (/\ InRadio(sm)
                     /\ hist'.handled = <<Ev(button, BTN_EVENT_LONG_PRESS)>>)
                    => sm'.g_radio_state.preset_freq =
                         [sm.g_radio_state.preset_freq
                            EXCEPT ![b][i] = sm.g_radio_state.frequency]
                 /\ (/\ InRadio(sm)
                     /\ hist.stored[b][i] # << >>
                     /\ hist'.handled = <<Ev(button, BTN_EVENT_RELEASE)>>)
                    => sm'.g_radio_state.frequency = hist.stored[b][i][1]]_vars

\* 87.7 MHz was stored into slot 1 and 87.9 MHz into slot 2; after a power
\* cycle and with the radio tuned elsewhere, slot 1 has just been recalled
C24_Witness ==
    /\ hist.stored[RADIO_BAND_FM][0] = <<BrowseFreq(1)>>
    /\ hist.stored[RADIO_BAND_FM][1] = <<BrowseFreq(2)>>
    /\ hist.reloaded
    /\ hist.handled = <<Ev(BTN_STATION_1, BTN_EVENT_RELEASE)>>
    /\ sm.g_radio_state.frequency = BrowseFreq(1)

(***************************************************************************)
(* SpecClamp: the knob turned any number of times in Radio and Bluetooth   *)
(* mode, with the audio stack's report of an A2DP volume.  hist.clamped    *)
(* counts the rotate events in a row that left the volume of the mode as   *)
(* it was, up to MaxClamped.                                               *)
(***************************************************************************)
MaxClamped == 3

KnobEvents ==
    {Ev(BTN_ROTARY, type) : type \in {BTN_EVENT_PRESS, BTN_EVENT_ROTARY_CW,
                                      BTN_EVENT_ROTARY_CCW}}

\* The volume the knob adjusts in the mode of s
KnobVolume(s) ==
    IF s.g_current_mode = MODE_RADIO THEN s.g_radio_state.volume
    ELSE s.g_a2dp_state.volume

HandleKnob(event) ==
    /\ sm' = stereo_state_handle_button(Begin(sm), event, ESP_OK)
    /\ hist' = [hist EXCEPT
                  !.clamped = IF /\ IsRotate(event)
                                 /\ sm'.g_current_mode = sm.g_current_mode
                                 /\ KnobVolume(sm') = KnobVolume(sm)
                              THEN IF @ < MaxClamped THEN @ + 1 ELSE @
                              ELSE 0]
    /\ UNCHANGED <<btn, out>>

SwitchMode(mode) ==
    /\ sm' = stereo_state_set_mode(Begin(sm), mode)
    /\ hist' = [hist EXCEPT !.clamped = 0]
    /\ UNCHANGED <<btn, out>>

ReportA2dpVolume(new_volume) ==
    /\ hist.reports < MaxReports
    /\ sm' = on_bt_volume_changed(Begin(sm), "BT_VOLUME_TARGET_A2DP", new_volume)
    /\ hist' = [hist EXCEPT !.reports = @ + 1, !.clamped = 0]
    /\ UNCHANGED <<btn, out>>

NextClamp ==
    \/ \E event \in KnobEvents : HandleKnob(event)
    \/ \E mode \in {MODE_RADIO, MODE_BLUETOOTH} : SwitchMode(mode)
    \/ \E v \in VolumeReports : ReportA2dpVolume(v)

SpecClamp == Init /\ [][NextClamp]_vars

\* The knob adjusts a volume: Radio mode outside station browsing, or
\* Bluetooth mode
KnobSetsVolume(s) ==
    \/ s.g_current_mode = MODE_RADIO /\ ~s.g_browsing_stations
    \/ s.g_current_mode = MODE_BLUETOOTH

\* C25 as stated: in Radio mode (not browsing) and in Bluetooth mode a
\* RotateCW leaves a volume of 15 at 15 and a RotateCCW leaves a volume of 0
\* at 0; at any other value a rotate event changes the volume by exactly one.
C25_RotateStepsOrClamps ==
    [][\A d \in {1, -1} :
         (/\ KnobSetsVolume(sm)
          /\ HandleKnob(Ev(BTN_ROTARY, IF d = 1 THEN BTN_EVENT_ROTARY_CW
                                       ELSE BTN_EVENT_ROTARY_CCW)))
         => KnobVolume(sm') =
               IF (d = 1 /\ KnobVolume(sm) = 15) \/ (d = -1 /\ KnobVolume(sm) = 0)
               THEN KnobVolume(sm)
               ELSE KnobVolume(sm) + d]_vars

\* C25, amended: the same for a volume within 0..15.
C25_RotateStepsOrClampsInRange ==
    [][\A d \in {1, -1} :
         (/\ KnobSetsVolume(sm)
          /\ KnobVolume(sm) \in 0..15
          /\ HandleKnob(Ev(BTN_ROTARY, IF d = 1 THEN BTN_EVENT_ROTARY_CW
                                       ELSE BTN_EVENT_ROTARY_CCW)))
         => KnobVolume(sm') =
               IF (d = 1 /\ KnobVolume(sm) = 15) \/ (d = -1 /\ KnobVolume(sm) = 0)
               THEN KnobVolume(sm)
               ELSE KnobVolume(sm) + d]_vars

\* Three RotateCW in a row have left the radio volume at 15
C25_Witness ==
    /\ sm.g_current_mode = MODE_RADIO /\ ~sm.g_browsing_stations
    /\ sm.g_radio_state.volume = 15
    /\ hist.clamped = MaxClamped

(***************************************************************************)
(* SpecStream: the audio stack's streaming and call notifications, with    *)
(* the power and mode operations and the encoder's events between them.    *)
(* hist.handled names the operation of the last step.                      *)
(***************************************************************************)
Handled(next, operation) ==
    /\ sm' = next
    /\ hist' = [hist EXCEPT !.handled = operation]
    /\ UNCHANGED <<btn, out>>

StreamNotice(streaming) ==
    Handled(stereo_state_a2dp_streaming(Begin(sm), streaming),
            <<"a2dp_streaming", streaming>>)

\* The notification as the audio stack delivers it, through main.c
StreamCallback(streaming) ==
    Handled(a2dp_audio_state_callback(Begin(sm), streaming),
            <<"a2dp_streaming", streaming>>)

CallNotice(call_active, caller_id) ==
    Handled(stereo_state_hfp_call_status(Begin(sm), call_active, caller_id),
            <<"hfp_call_status", call_active>>)

PowerSwitch(on) ==
    Handled(stereo_state_set_power(Begin(sm), on), <<"set_power", on>>)

ModeSwitch(mode) ==
    Handled(stereo_state_set_mode(Begin(sm), mode), <<"set_mode", mode>>)

EncoderButton(event) ==
    Handled(stereo_state_handle_button(Begin(sm), event, ESP_OK), <<event>>)

StreamEvents ==
    {Ev(BTN_ROTARY, type) : type \in {BTN_EVENT_PRESS, BTN_EVENT_RELEASE}}

NextStream ==
    \/ \E streaming \in BOOLEAN : StreamNotice(streaming)
    \/ \E streaming \in BOOLEAN : StreamCallback(streaming)
    \/ \E active \in BOOLEAN, id \in CallerIds : CallNotice(active, id)
    \/ \E on \in BOOLEAN : PowerSwitch(on)
    \/ \E mode \in Modes : ModeSwitch(mode)
    \/ \E event \in StreamEvents : EncoderButton(event)

SpecStream == Init /\ [][NextStream]_vars

\* C26: an audio-stream-start notification leaves the system powered on and
\* in Bluetooth mode when the system was off or in a mode other than
\* PhoneCall, and leaves the mode unchanged when the system is on in
\* PhoneCall mode; an audio-stream-stop notification changes neither the
\* mode nor the power state.
C26_StreamStartPowersIntoBluetooth ==
    [][/\ hist'.handled = <<"a2dp_streaming", TRUE>>
          => IF ~sm.g_powered_on \/ sm.g_current_mode # MODE_PHONE_CALL
             THEN sm'.g_powered_on /\ sm'.g_current_mode = MODE_BLUETOOTH
             ELSE sm'.g_current_mode = MODE_PHONE_CALL
       /\ hist'.handled = <<"a2dp_streaming", FALSE>>
          => /\ sm'.g_current_mode = sm.g_current_mode
             /\ sm'.g_powered_on = sm.g_powered_on]_vars

C26_Witness ==
    /\ hist.handled = <<"a2dp_streaming", TRUE>>
    /\ sm.g_powered_on /\ sm.g_current_mode = MODE_BLUETOOTH
    /\ sm.display # << >>
    /\ sm.display[1].text = <<"Auto Power ON">>

(***************************************************************************)
(* SpecDevice: the audio stack's connection notifications as main.c        *)
(* registers them, with its volume notifications and the encoder's events  *)
(* in between.  For a disconnect hist.handled keeps the device that was    *)
(* connected and the three volumes in effect.                              *)
(***************************************************************************)
Volumes(s) ==
    <<s.g_a2dp_state.volume, s.g_hfp_state.speaker_volume,
      s.g_hfp_state.mic_volume>>

DeviceCallback(connected, remote_bda) ==
    Handled(bt_connection_callback(Begin(sm), connected, remote_bda),
            IF connected
            THEN <<"connected", remote_bda>>
            ELSE <<"disconnected", sm.g_current_bt_device_mac>> \o Volumes(sm))

VolumeNotice(target, new_volume) ==
    /\ hist.reports < MaxReports
    /\ sm' = on_bt_volume_changed(Begin(sm), target, new_volume)
    /\ hist' = [hist EXCEPT !.reports = @ + 1, !.handled = <<"volume">>]
    /\ UNCHANGED <<btn, out>>

NextDevice ==
    \/ \E connected \in BOOLEAN, addr \in Addrs : DeviceCallback(connected, addr)
    \/ \E target \in VolumeTargets, v \in VolumeReports : VolumeNotice(target, v)
    \/ \E mode \in {MODE_BLUETOOTH} : ModeSwitch(mode)
    \/ \E event \in {Ev(BTN_ROTARY, BTN_EVENT_ROTARY_CCW)} : EncoderButton(event)

SpecDevice == Init /\ [][NextDevice]_vars

Disconnects(h) == Len(h.handled) = 5

Connects(h) == Len(h.handled) = 2 /\ h.handled[1] = "connected"

\* C27: when the registered connection callback reports the disconnection of
\* the connected device, the A2DP, HFP speaker and HFP microphone volumes in
\* effect are saved in that device's profile; and when it then reports that
\* the device connected again, the volumes are those in effect at the
\* disconnect.
C27_DisconnectSavesDeviceVolumes ==
    [][/\ Disconnects(hist') /\ hist'.handled[2] # 0
          => \E idx \in DOMAIN sm'.g_bt_devices :
                LET dev == sm'.g_bt_devices[idx]
                IN  /\ dev.valid
                    /\ dev.mac_addr = hist'.handled[2]
                    /\ <<dev.a2dp_volume, dev.hfp_speaker_volume,
                         dev.hfp_mic_volume>> = SubSeq(hist'.handled, 3, 5)
       /\ Disconnects(hist) /\ Connects(hist')
                            /\ hist'.handled[2] = hist.handled[2]
          => Volumes(sm') = SubSeq(hist.handled, 3, 5)]_vars

(***************************************************************************)
(* SpecBrowse: station browsing under the encoder's events, the recall of  *)
(* a preset and the tune timer.                                            *)
(***************************************************************************)
BrowseEvents ==
    {Ev(BTN_ROTARY, type) : type \in {BTN_EVENT_PRESS, BTN_EVENT_RELEASE,
                                      BTN_EVENT_ROTARY_CW, BTN_EVENT_ROTARY_CCW}}
    \cup {Ev(BTN_STATION_2, BTN_EVENT_RELEASE)}

BrowseButton(event) ==
    /\ IsRotate(event) => hist.rotations < MaxRotations
    /\ sm' = stereo_state_handle_button(Begin(sm), event, ESP_OK)
    /\ hist' = [hist EXCEPT !.handled = <<event>>,
                            !.rotations = IF IsRotate(event) THEN @ + 1 ELSE @]
    /\ UNCHANGED <<btn, out>>

NextBrowse ==
    \/ \E event \in BrowseEvents : BrowseButton(event)
    \/ \E task \in sm.tune_tasks : TuneTimerCommits(task)

SpecBrowse == Init /\ [][NextBrowse]_vars

\* A frequency in tenths of a MHz, as "%.1f MHz" displays it
Tenths(freq) == RoundDiv(10 * freq, FUnit)

\* The ends of the browsing range, 87.5 + 0 * 0.2 and 87.5 + 19 * 0.2
BrowseLow == 875
BrowseHigh == 913

\* A rotate event is handled while browsing is active
BrowsingRotate(type) ==
    /\ hist'.handled = <<Ev(BTN_ROTARY, type)>>
    /\ sm.g_powered_on /\ sm.g_current_mode = MODE_RADIO
    /\ sm.g_browsing_stations

\* C28: while station browsing is active a RotateCW / RotateCCW event moves
\* the candidate frequency 0.2 MHz up / down from the previous candidate,
\* wrapping only from the upper end of the browsing range to the lower end /
\* from the lower end to the upper end, and leaves the radio volume and the
\* tuned frequency unchanged; on entry to browsing the candidate is the
\* tuned frequency.
C28_BrowseStepsFromCandidate ==
    [][LET candidate == Tenths(sm.g_browsing_station_freq)
           next      == Tenths(sm'.g_browsing_station_freq)
       IN  /\ BrowsingRotate(BTN_EVENT_ROTARY_CW)
              => /\ next = IF candidate = BrowseHigh THEN BrowseLow
                           ELSE candidate + 2
                 /\ sm'.g_radio_state.volume = sm.g_radio_state.volume
                 /\ sm'.g_radio_state.frequency = sm.g_radio_state.frequency
           /\ BrowsingRotate(BTN_EVENT_ROTARY_CCW)
              => /\ next = IF candidate = BrowseLow THEN BrowseHigh
                           ELSE candidate - 2
                 /\ sm'.g_radio_state.volume = sm.g_radio_state.volume
                 /\ sm'.g_radio_state.frequency = sm.g_radio_state.frequency
           /\ ~sm.g_browsing_stations /\ sm'.g_browsing_stations
              => sm'.g_browsing_station_freq = sm.g_radio_state.frequency]_vars

(***************************************************************************)
(* SpecTune: station browsing in time.  hist.clock is the time in ms,      *)
(* hist.timers holds <<task, time>> for every "tune_timer" task and the    *)
(* time it was created at, hist.rotated_at the time of the most recent     *)
(* rotate event handled while browsing and the candidate it set.  A timer  *)
(* task runs when its vTaskDelay(STATION_TUNE_DELAY_MS) is over.           *)
(***************************************************************************)
MaxTuneTime == 3000
\* The step of the clock: it divides the delay, so that every deadline is a
\* clock value
TuneStep == STATION_TUNE_DELAY_MS \div 4

TuneEvents ==
    {Ev(BTN_ROTARY, type) : type \in {BTN_EVENT_PRESS, BTN_EVENT_RELEASE,
                                      BTN_EVENT_ROTARY_CW, BTN_EVENT_ROTARY_CCW}}

\* The handler of a rotate event calls start_station_tune_timer
StartsTimer(s, event) ==
    IsRotate(event) /\ s.g_current_mode = MODE_RADIO /\ s.g_browsing_stations

Pending(s, h) == {tm \in h.timers : tm[1] \in s.tune_tasks}

TuneTick ==
    /\ hist.clock + TuneStep <= MaxTuneTime
    /\ \A tm \in Pending(sm, hist) :
          hist.clock + TuneStep <= tm[2] + STATION_TUNE_DELAY_MS
    /\ hist' = [hist EXCEPT !.clock = @ + TuneStep, !.handled = << >>]
    /\ UNCHANGED <<sm, btn, out>>

TuneButton(event) ==
    /\ IsRotate(event) => hist.rotations < MaxRotations
    /\ sm' = stereo_state_handle_button(Begin(sm), event, ESP_OK)
    /\ hist' =
          IF StartsTimer(sm, event)
          THEN [hist EXCEPT
                  !.handled = <<event>>,
                  !.rotations = @ + 1,
                  !.timers = {tm \in @ : /\ tm[1] \in sm'.tune_tasks
                                         /\ tm[1] # sm'.g_station_tune_timer}
                             \cup {<<sm'.g_station_tune_timer, hist.clock>>},
                  !.rotated_at = <<hist.clock, sm'.g_browsing_station_freq>>,
                  !.stale = @ \cap sm'.tune_tasks]
          ELSE [hist EXCEPT
                  !.handled = <<event>>,
                  !.rotations = IF IsRotate(event) THEN @ + 1 ELSE @,
                  !.stale = IF sm.g_browsing_stations /\ ~sm'.g_browsing_stations
                            THEN sm'.tune_tasks
                            ELSE @ \cap sm'.tune_tasks]
    /\ UNCHANGED <<btn, out>>

TuneDelayOver(task) ==
    /\ task \in sm.tune_tasks
    /\ <<task, hist.clock - STATION_TUNE_DELAY_MS>> \in hist.timers
    /\ sm' = station_tune_timer_callback(Begin(sm), task)
    /\ hist' = [hist EXCEPT !.handled = <<"tune_timer", task>>,
                            !.timers = @ \ {<<task, hist.clock - STATION_TUNE_DELAY_MS>>},
                            !.stale = @ \ {task}]
    /\ UNCHANGED <<btn, out>>

NextTune ==
    \/ TuneTick
    \/ \E event \in TuneEvents : TuneButton(event)
    \/ \E task \in sm.tune_tasks : TuneDelayOver(task)

SpecTune == Init /\ [][NextTune]_vars

\* The timer task commits the candidate in this step
Commits == Len(hist'.handled) = 2 /\ sm.g_browsing_stations

\* C29: the candidate is committed as the tuned frequency only when 2000 ms
\* have elapsed since the most recent rotate event handled while browsing,
\* and the committed value is the candidate that rotate set; after a rotate
\* event handled while browsing the only pending commit is the one started
\* by it.
C29_CommitAfterFullDelay ==
    [][/\ Commits
          => /\ hist.rotated_at # << >>
             /\ hist.clock - hist.rotated_at[1] >= STATION_TUNE_DELAY_MS
             /\ sm'.g_radio_state.frequency = hist.rotated_at[2]
       /\ hist'.rotated_at # hist.rotated_at
          => Pending(sm', hist') = {<<sm'.g_station_tune_timer, hist.clock>>}]_vars

(***************************************************************************)
(* SpecRepeat: the polling loop of adc_button_monitor_task in time, for    *)
(* one ladder button.  out.in_press tells that a Press was emitted and no  *)
(* Release since, out.long_at and out.repeat_at hold the time at which the *)
(* LongPress and the latest Repeat of that press were emitted.             *)
(***************************************************************************)
RepeatSteps == {BUTTON_REPEAT_INTERVAL_MS \div 2, LONG_PRESS_THRESHOLD_MS}

\* The history once this event was emitted at this time
RepeatLog(o, event, now) ==
    IF event = NoEvent THEN o
    ELSE CASE event.event = BTN_EVENT_PRESS ->
                [o EXCEPT !.in_press = TRUE, !.long_at = << >>,
                          !.repeat_at = << >>]
           [] event.event = BTN_EVENT_LONG_PRESS -> [o EXCEPT !.long_at = <<now>>]
           [] event.event = BTN_EVENT_REPEAT -> [o EXCEPT !.repeat_at = <<now>>]
           [] event.event = BTN_EVENT_RELEASE -> [o EXCEPT !.in_press = FALSE]
           [] OTHER -> o

LadderPoll(current_button) ==
    /\ btn.adc_event = NoEvent
    /\ btn' = adc_loop_body(btn, current_button)
    /\ out' = RepeatLog(out, btn'.adc_event, btn.now)
    /\ UNCHANGED <<sm, hist>>

LadderReturn ==
    /\ btn.adc_event # NoEvent
    /\ CallbackReturns(btn.adc_event)
    /\ btn' = adc_after_callback(btn)
    /\ out' = RepeatLog(out, btn'.adc_event, btn.now)

NextRepeat ==
    \/ \E d \in RepeatSteps : Tick(d)
    \/ \E current_button \in {BTN_NONE, BTN_UP} : LadderPoll(current_button)
    \/ LadderReturn

SpecRepeat == Init /\ [][NextRepeat]_vars

\* The polling task calls the callback with an event of this type in this step
LadderEmits(type) ==
    /\ btn'.adc_event # NoEvent
    /\ btn'.adc_event # btn.adc_event
    /\ btn'.adc_event.event = type

DeviceAddrs == 1..(MAX_BT_DEVICES + 1)

Slots == 0..(MAX_BT_DEVICES - 1)

DeviceDisconnects(device_addr) ==
    Handled(stereo_state_bt_device_disconnected(Begin(sm), device_addr),
            <<"disconnected", device_addr>>)

NextProfile ==
    \/ \E addr \in DeviceAddrs : DeviceDisconnects(addr)
    \/ /\ hist.reports = 0
       /\ \E v \in VolumeReports : VolumeNotice("BT_VOLUME_TARGET_A2DP", v)
    \/ Reboot

SpecProfile == Init /\ [][NextProfile]_vars

ValidSlots(s) == {i \in Slots : s.g_bt_devices[i].valid}

\* No two valid slots hold the same address, and the valid slots are a prefix
\* of the table
TableInOrder(s) ==
    /\ \A i, j \in ValidSlots(s) :
          s.g_bt_devices[i].mac_addr = s.g_bt_devices[j].mac_addr => i = j
    /\ \A i \in ValidSlots(s) : \A j \in 0..i : j \in ValidSlots(s)

\* The slot the claim names for a disconnect of this address
ProfileSlot(s, addr) ==
    LET holds == {i \in ValidSlots(s) : s.g_bt_devices[i].mac_addr = addr}
        free  == Slots \ ValidSlots(s)
    IN  IF holds # {} THEN CHOOSE i \in holds : \A j \in holds : i <= j
        ELSE IF free # {} THEN CHOOSE i \in free : \A j \in free : i <= j
        ELSE 0

\* C31: a disconnect of address A writes the profile into the slot that holds
\* A, otherwise into the first free slot, otherwise into slot 0, and changes
\* no other slot; after every step no two valid slots hold the same address
\* and the valid slots are a prefix of the table; and the load at a power
\* cycle reproduces every valid profile.
C31_ProfileSlotPolicy ==
    [][/\ (Len(hist'.handled) = 2 /\ hist'.handled[1] = "disconnected")
          => LET addr == hist'.handled[2]
             IN  sm'.g_bt_devices =
                    [sm.g_bt_devices EXCEPT ![ProfileSlot(sm, addr)] =
                        [mac_addr           |-> addr,
                         a2dp_volume        |-> sm.g_a2dp_state.volume,
                         hfp_speaker_volume |-> sm.g_hfp_state.speaker_volume,
                         hfp_mic_volume     |-> sm.g_hfp_state.mic_volume,
                         valid              |-> TRUE]]
       /\ TableInOrder(sm) /\ TableInOrder(sm')
       /\ Len(hist'.handled) = 0
          => \A i \in ValidSlots(sm) : sm'.g_bt_devices[i] = sm.g_bt_devices[i]]_vars

\* The table is full, and a disconnect of one more device has just replaced
\* slot 0
C31_Witness ==
    /\ ValidSlots(sm) = Slots
    /\ hist.handled = <<"disconnected", MAX_BT_DEVICES + 1>>
    /\ sm.g_bt_devices[0].mac_addr = MAX_BT_DEVICES + 1
    /\ sm.g_bt_devices[1].mac_addr = 2

(***************************************************************************)
(* SpecHold: the encoder button in time, with the ISR, the long-press      *)
(* monitor and the dispatcher interleaved, the DT line leaving and         *)
(* regaining rest.  out.down_at holds the time at which the button went    *)
(* down while it is down.  The presses of the button are numbered:         *)
(* out.presses is the number of the latest, out.tags holds for every event *)
(* in the queue the press during which the ISR queued it, out.longs the    *)
(* presses during which a LongPress was delivered and out.released the     *)
(* presses of which a queued event was delivered.                          *)
(***************************************************************************)
MaxPresses == 2

\* The tags of the queue after the ISR ran
Tagged(o, b, next) ==
    IF Len(next.g_button_queue) > Len(b.g_button_queue)
    THEN Append(o.tags, o.presses)
    ELSE o.tags

HoldEdge ==
    /\ btn.sw = 1 => out.presses < MaxPresses
    /\ btn' = rotary_encoder_isr([btn EXCEPT !.sw = 1 - @])
    /\ out' = IF btn.sw = 1
              THEN [out EXCEPT !.down_at = <<btn.now>>, !.enc_long_presses = 0,
                               !.presses = @ + 1,
                               !.tags = Tagged(out, btn, btn')]
              ELSE [out EXCEPT !.down_at = << >>,
                               !.tags = Tagged(out, btn, btn')]
    /\ UNCHANGED <<sm, hist>>

HoldDt ==
    /\ btn' = rotary_encoder_isr([btn EXCEPT !.dt = 1 - @])
    /\ out' = [out EXCEPT !.tags = Tagged(out, btn, btn')]
    /\ UNCHANGED <<sm, hist>>

\* button_long_press_monitor_task reads the duration; the LongPress it
\* delivers is counted for the latest press of the button
HoldMonitorDuration ==
    /\ btn.monitor_pc = "duration"
    /\ LET press_duration == U32Sub(btn.now, btn.g_rotary_press_start)
       IN  IF press_duration >= LONG_PRESS_THRESHOLD_MS
           THEN /\ btn' = [btn EXCEPT !.monitor_pc = "callback"]
                /\ out' = [out EXCEPT !.enc_long_presses = @ + 1,
                                      !.longs = @ \cup {out.presses}]
           ELSE /\ btn' = [btn EXCEPT !.monitor_pc = "delay"]
                /\ out' = out
    /\ UNCHANGED <<sm, hist>>

HoldReceive ==
    /\ btn.rotary_event = NoEvent
    /\ btn.g_button_queue # << >>
    /\ btn' = [btn EXCEPT !.rotary_event = Head(btn.g_button_queue),
                          !.g_button_queue = Tail(@)]
    /\ out' = [out EXCEPT !.tags = Tail(@),
                          !.released = @ \cup {Head(out.tags)}]
    /\ UNCHANGED <<sm, hist>>

NextHold ==
    \/ HoldTick
    \/ HoldEdge
    \/ HoldDt
    \/ MonitorCheck
    \/ HoldMonitorDuration
    \/ MonitorReturn
    \/ MonitorSetSent
    \/ HoldReceive
    \/ DispatcherReturn

SpecHold == Init /\ [][NextHold]_vars

\* The monitor calls the callback with the LongPress in this step
MonitorDelivers == out'.enc_long_presses > out.enc_long_presses

\* C32: whenever the long-press monitor delivers a LongPress for the encoder
\* button, the button is down at that moment and has been down for at least
\* the long-press threshold, under every interleaving of the ISR with the
\* monitor.
C32_LongPressOnlyWhileHeld ==
    [][MonitorDelivers
       => /\ btn.sw = 0
          /\ out.down_at # << >>
          /\ btn.now - out.down_at[1] >= LONG_PRESS_THRESHOLD_MS]_vars


(***************************************************************************)
(* C33: every ReleaseAfterLongPress that rotary_event_task delivers to the *)
(* callback comes after a LongPress delivered during the same press of the *)
(* button, and the monitor delivers no LongPress for a press of which the  *)
(* release event was delivered already.                                    *)
(***************************************************************************)
DeliversReleaseAfterLong ==
    /\ btn.rotary_event = NoEvent
    /\ btn'.rotary_event = Ev(BTN_ROTARY, BTN_EVENT_RELEASE_AFTER_LONG)

C33_ReleaseAfterLongFollowsLongPress ==
    [][ /\ DeliversReleaseAfterLong => Head(out.tags) \in out.longs
        /\ MonitorDelivers => out.presses \notin out.released ]_vars


(***************************************************************************)
(* C34: after an invocation of rotary_encoder_isr that passed the debounce *)
(* window, whichever branch it took, g_encoder_state is the phase pair the *)
(* invocation read from the CLK and DT pins.                               *)
(***************************************************************************)
C34_StoredPhaseIsSampledPhase ==
    out.sampled # << >> => btn.g_encoder_state = out.sampled[1]


(***************************************************************************)
(* C35: g_browsing_stations is true only while the mode is Radio and the   *)
(* system is powered on.                                                   *)
(***************************************************************************)
C35_BrowsingOnlyInRadio ==
    sm.g_browsing_stations =>
        sm.g_current_mode = MODE_RADIO /\ sm.g_powered_on


(***************************************************************************)
(* C36: a commit timer started in a browsing session that has ended since  *)
(* (hist.stale holds the timer tasks alive when a session was toggled off) *)
(* fires without ending the session in progress and without changing the   *)
(* tuned frequency.                                                        *)
(***************************************************************************)
StaleTimerFires ==
    /\ Len(hist'.handled) = 2
    /\ hist'.handled[2] \in hist.stale
    /\ sm.g_browsing_stations

C36_StaleTimerLeavesSessionAlone ==
    [][StaleTimerFires =>
          /\ sm'.g_browsing_stations
          /\ sm'.g_radio_state.frequency = sm.g_radio_state.frequency]_vars


(***************************************************************************)
(* SpecTimer: start_station_tune_timer and station_tune_timer_callback     *)
(* statement by statement.  The dispatcher and the "tune_timer" tasks have *)
(* the same priority (5) and share g_station_tune_timer without a lock, so *)
(* their statements interleave.  Of the tasks in sm.tune_tasks those in    *)
(* sm.tune_clearing are past the commit and those in sm.tune_deleting past *)
(* the assignment of NULL to the handle; sm.restart_pc is the statement    *)
(* start_station_tune_timer is at and sm.restart_handle the handle it read *)
(* in its condition.  hist.created counts the tasks created, a task's      *)
(* number being its handle; hist.finished holds the tasks that deleted     *)
(* themselves and hist.deleted the argument of the last vTaskDelete of     *)
(* start_station_tune_timer.                                               *)
(***************************************************************************)
MaxRestarts == 3

TimerEvents ==
    {Ev(BTN_ROTARY, type) : type \in {BTN_EVENT_PRESS, BTN_EVENT_RELEASE}}

\* An event that does not restart the timer is handled
TimerButton(event) ==
    /\ sm.restart_pc = "idle"
    /\ sm' = stereo_state_handle_button(Begin(sm), event, ESP_OK)
    /\ hist' = [hist EXCEPT !.handled = <<event>>, !.deleted = << >>]
    /\ UNCHANGED <<btn, out>>

\* handle_radio_mode handles a rotate while browsing up to the call of
\* start_station_tune_timer, which evaluates if (g_station_tune_timer)
RestartTest(type) ==
    /\ sm.restart_pc = "idle"
    /\ hist.created < MaxRestarts
    /\ StartsTimer(sm, Ev(BTN_ROTARY, type))
    /\ LET done == stereo_state_handle_button(Begin(sm), Ev(BTN_ROTARY, type), ESP_OK)
       IN  sm' = [done EXCEPT
                    !.tune_tasks = sm.tune_tasks,
                    !.g_station_tune_timer = sm.g_station_tune_timer,
                    !.restart_handle = sm.g_station_tune_timer,
                    !.restart_pc = IF sm.g_station_tune_timer # NULL
                                   THEN "delete" ELSE "create"]
    /\ hist' = [hist EXCEPT !.handled = <<Ev(BTN_ROTARY, type)>>,
                            !.deleted = << >>]
    /\ UNCHANGED <<btn, out>>

\* vTaskDelete(g_station_tune_timer): the argument is the handle read in the
\* condition or the handle read again (the variable is not volatile);
\* vTaskDelete(NULL) deletes the calling task
RestartDelete ==
    /\ sm.restart_pc = "delete"
    /\ \E handle \in {sm.restart_handle, sm.g_station_tune_timer} :
          /\ sm' = [Begin(sm) EXCEPT
                       !.tune_tasks = @ \ {handle},
                       !.tune_clearing = @ \ {handle},
                       !.tune_deleting = @ \ {handle},
                       !.restart_pc = IF handle = NULL THEN "deleted" ELSE "create"]
          /\ hist' = [hist EXCEPT !.handled = << >>, !.deleted = <<handle>>]
    /\ UNCHANGED <<btn, out>>

\* xTaskCreate(station_tune_timer_callback, ..., &g_station_tune_timer)
RestartCreate ==
    /\ sm.restart_pc = "create"
    /\ sm' = [Begin(sm) EXCEPT
                 !.tune_tasks = @ \cup {hist.created + 1},
                 !.g_station_tune_timer = hist.created + 1,
                 !.restart_pc = "idle"]
    /\ hist' = [hist EXCEPT !.handled = << >>, !.created = @ + 1,
                            !.deleted = << >>]
    /\ UNCHANGED <<btn, out>>

\* Delayed(s): the tasks in their vTaskDelay, which have the commit ahead
Delayed(s) == s.tune_tasks \ (s.tune_clearing \cup s.tune_deleting)

\* The delay of a timer task is over: it tests g_browsing_stations, commits
TimerCommit(task) ==
    /\ task \in Delayed(sm)
    /\ LET done == station_tune_timer_callback(Begin(sm), task)
       IN  sm' = [done EXCEPT
                    !.tune_tasks = sm.tune_tasks,
                    !.g_station_tune_timer = sm.g_station_tune_timer,
                    !.tune_clearing = @ \cup {task}]
    /\ hist' = [hist EXCEPT !.handled = << >>, !.deleted = << >>]
    /\ UNCHANGED <<btn, out>>

\* g_station_tune_timer = NULL
TimerClear(task) ==
    /\ task \in sm.tune_clearing
    /\ sm' = [Begin(sm) EXCEPT
                 !.g_station_tune_timer = NULL,
                 !.tune_clearing = @ \ {task},
                 !.tune_deleting = @ \cup {task}]
    /\ hist' = [hist EXCEPT !.handled = << >>, !.deleted = << >>]
    /\ UNCHANGED <<btn, out>>

\* vTaskDelete(NULL)
TimerDelete(task) ==
    /\ task \in sm.tune_deleting
    /\ sm' = [Begin(sm) EXCEPT
                 !.tune_tasks = @ \ {task},
                 !.tune_deleting = @ \ {task}]
    /\ hist' = [hist EXCEPT !.handled = << >>, !.deleted = << >>,
                            !.finished = @ \cup {task}]
    /\ UNCHANGED <<btn, out>>

NextTimer ==
    \/ \E event \in TimerEvents : TimerButton(event)
    \/ \E type \in {BTN_EVENT_ROTARY_CW, BTN_EVENT_ROTARY_CCW} : RestartTest(type)
    \/ RestartDelete
    \/ RestartCreate
    \/ \E task \in sm.tune_tasks : TimerCommit(task)
    \/ \E task \in sm.tune_tasks : TimerClear(task)
    \/ \E task \in sm.tune_tasks : TimerDelete(task)

SpecTimer == Init /\ [][NextTimer]_vars

(***************************************************************************)
(* C37: at most one timer task has its commit ahead, g_station_tune_timer  *)
(* is NULL or the handle of a task that has not deleted itself, and the    *)
(* vTaskDelete of start_station_tune_timer is never given the handle of a  *)
(* task that has deleted itself.                                           *)
(***************************************************************************)
C37_OneLiveTimer ==
    /\ Cardinality(Delayed(sm)) <= 1
    /\ sm.g_station_tune_timer \notin hist.finished
    /\ \A i \in 1..Len(hist.deleted) : hist.deleted[i] \notin hist.finished


(***************************************************************************)
(* C38: every call of on_mode_change an operation makes passes the mode    *)
(* held before the operation as old and the mode held after it as new, the *)
(* two being different, and an operation that changes the mode makes       *)
(* exactly one call.                                                       *)
(***************************************************************************)
C38_ModeCallbackMatchesChange ==
    [][ /\ \A i \in 1..Len(sm'.mode_cb) :
              /\ sm'.mode_cb[i] = <<sm.g_current_mode, sm'.g_current_mode>>
              /\ sm.g_current_mode # sm'.g_current_mode
        /\ sm'.g_current_mode # sm.g_current_mode => Len(sm'.mode_cb) = 1 ]_vars


(***************************************************************************)
(* SpecSeek: the events of the two seek buttons of the ladder, handled in  *)
(* any order in any mode.  hist.seek follows the events since the last     *)
(* Press while no other operation came between: <<B, BTN_EVENT_PRESS>>     *)
(* after Press(B), <<B, BTN_EVENT_LONG_PRESS>> after a LongPress(B) that   *)
(* followed the Press, <<B, BTN_EVENT_REPEAT>> after the Repeats that      *)
(* followed the LongPress.                                                 *)
(***************************************************************************)
SeekButtons == {BTN_UP, BTN_DOWN}

SeekEvents ==
    {Ev(b, type) : b \in SeekButtons,
                   type \in {BTN_EVENT_PRESS, BTN_EVENT_LONG_PRESS,
                             BTN_EVENT_REPEAT, BTN_EVENT_RELEASE}}

Held(seek, event) ==
    IF event.event = BTN_EVENT_PRESS
    THEN <<event.button, BTN_EVENT_PRESS>>
    ELSE IF /\ event.event = BTN_EVENT_LONG_PRESS
            /\ seek = <<event.button, BTN_EVENT_PRESS>>
    THEN <<event.button, BTN_EVENT_LONG_PRESS>>
    ELSE IF /\ event.event = BTN_EVENT_REPEAT
            /\ seek \in {<<event.button, BTN_EVENT_LONG_PRESS>>,
                          <<event.button, BTN_EVENT_REPEAT>>}
    THEN <<event.button, BTN_EVENT_REPEAT>>
    ELSE << >>

SeekEvent(event) ==
    /\ sm' = stereo_state_handle_button(Begin(sm), event, ESP_OK)
    /\ hist' = [hist EXCEPT !.handled = <<event>>,
                            !.seek = IF /\ sm.g_powered_on
                                        /\ sm.g_current_mode = MODE_BLUETOOTH
                                     THEN Held(hist.seek, event)
                                     ELSE << >>]
    /\ UNCHANGED <<btn, out>>

SeekPower(on) ==
    /\ sm' = stereo_state_set_power(Begin(sm), on)
    /\ hist' = [hist EXCEPT !.handled = << >>, !.seek = << >>]
    /\ UNCHANGED <<btn, out>>

SeekMode(mode) ==
    /\ sm' = stereo_state_set_mode(Begin(sm), mode)
    /\ hist' = [hist EXCEPT !.handled = << >>, !.seek = << >>]
    /\ UNCHANGED <<btn, out>>

NextSeek ==
    \/ \E event \in SeekEvents : SeekEvent(event)
    \/ \E on \in BOOLEAN : SeekPower(on)
    \/ \E mode \in {MODE_RADIO, MODE_BLUETOOTH} : SeekMode(mode)

SpecSeek == Init /\ [][NextSeek]_vars

(***************************************************************************)
(* C39: in Bluetooth mode the Release(B) that ends the sequence Press(B),  *)
(* LongPress(B), one or more Repeat(B) of a seek button B sends neither    *)
(* the next-track nor the previous-track command to the audio stack.       *)
(***************************************************************************)
ReleasesAfterRamp ==
    /\ hist.seek # << >>
    /\ hist.seek[2] = BTN_EVENT_REPEAT
    /\ hist'.handled = <<Ev(hist.seek[1], BTN_EVENT_RELEASE)>>

C39_RampSendsNoTrackChange ==
    [][ReleasesAfterRamp =>
          \A i \in 1..Len(sm'.audio) :
              sm'.audio[i] \notin {<<"avrc_next">>, <<"avrc_prev">>}]_vars


=============================================================================
